---- MODULE Spec2Model ----
(***************************************************************************)
(* Pipeline orchestration and model lifecycle of the customer              *)
(* intelligence backend: kill switches, promotion policy, champion         *)
(* registry, training runs and the run_pipeline orchestrator.              *)
(*                                                                         *)
(* Numbers are integers: AUC-like metrics in thousandths, RMSE/MAE in      *)
(* units, R2 in hundredths, relative thresholds in percent.  Relative      *)
(* changes are kept as fractions num/den and compared by cross             *)
(* multiplication, so no rounding enters a threshold comparison.           *)
(***************************************************************************)
EXTENDS Integers, Sequences, FiniteSets, TLC

VARIABLES
    now,                \* wall clock, in seconds (datetime.now())
    kill_switches,      \* KillSwitchManager.config["kill_switches"], in insertion order
    activation_history, \* KillSwitchManager.config["activation_history"]
    p_in,               \* arguments of a PromotionPolicy evaluation
    p_out,              \* its result <<[promote, reason]>>, or <<>> before the call
    raw_dir,            \* backend/data/raw: the raw files, each a sequence of rows
    features,           \* data/processed/<family>/features.parquet: <<>> or <<table>>
    artifacts,          \* model_registry/<family>/<name>_v<version>.{joblib,json}
    champion,           \* model_registry/<family>/champion.json: <<>> or <<record>>
    baseline_stats,     \* model_registry/<family>/baseline_stats.json: <<>> or <<stats>>
    state_store,        \* orchestration/state_store.json: <<>> (no file) or <<content>>
    pc,                 \* position of run_pipeline.main, or how the last run ended
    run,                \* the locals of run_pipeline.main in the current (or last) run
    prev_run,           \* what the run before it decided, and how it ended
    last_success_features, \* history: the feature tables when state was last saved
    drift_history,      \* monitoring/drift/<family>/history.json
    failed_runs,        \* number of pipeline runs that ended with an exception
    snapshots,          \* data/snapshots/customer_snapshot/snapshot_date=<d>/, one record per d
    outputs,            \* what build_outputs last wrote: <<>> or <<record>>
    promote_call,       \* position and locals of a promote_champion call in progress
    load_call,          \* position, locals and result of a load_champion call
    drift_dir,          \* monitoring/drift/<model>/: the report files and history.json
    loader,             \* the API's DataLoader: its cache and latest_snapshot_date
    rate_limiter,       \* the API's RateLimiter: clients and their request records
    managers            \* KillSwitchManager instances sharing one config file

ks_vars == <<kill_switches, activation_history>>
promo_vars == <<p_in, p_out>>
call_vars == <<promote_call, load_call>>
service_vars == <<drift_dir, loader, rate_limiter, managers>>
registry_vars == <<artifacts, champion, baseline_stats>>
data_vars == <<raw_dir, features>>
pipe_vars == <<state_store, pc, run, prev_run, last_success_features, drift_history,
               failed_runs, snapshots, outputs>>
vars == <<now, kill_switches, activation_history, p_in, p_out, raw_dir, features,
          artifacts, champion, baseline_stats, state_store, pc, run, prev_run,
          last_success_features, drift_history, failed_runs, snapshots, outputs,
          promote_call, load_call, drift_dir, loader, rate_limiter, managers>>

----------------------------------------------------------------------------
(* Bounds of the model *)

MaxTime == 2
MaxHistory == 4

\* An optional value (Python's None or a dict) is a sequence of length 0 or 1.
NoCall == [fn |-> "none", challenger_metrics |-> <<>>, champion_metrics |-> <<>>,
           baseline_metrics |-> <<>>]

----------------------------------------------------------------------------
(* Raw data, fingerprints and the feature build:
   orchestration/retraining_policy.py, features/*.py *)

Families == {"churn", "clv", "segmentation"}

Customers == {1, 2}

\* a raw directory: customers rows <<customer_id>>, orders rows
\* <<customer_id, order_date (day), order_value>>
RawDir(orders) == [customers |-> <<<<1>>, <<2>>>>, orders |-> orders]

\* the raw directories the pipeline is run on
RawDirs ==
    {RawDir(<<>>),
     RawDir(<<<<1, 0, 5>>, <<2, 0, 5>>, <<1, 40, 1>>>>),
     RawDir(<<<<1, 0, 5>>, <<2, 0, 5>>, <<1, 40, 2>>>>),
     RawDir(<<<<1, 0, 7>>, <<2, 0, 7>>, <<1, 40, 1>>>>),
     RawDir(<<<<1, 0, 5>>, <<2, 0, 5>>, <<1, 60, 1>>>>)}

\* the file names of a raw directory, in the order sorted() gives them
FileNames == <<"customers", "orders">>

\* the orders in which path.glob("*") can enumerate the files
Enumerations == {<<"customers", "orders">>, <<"orders", "customers">>}

\* sorted(path.glob("*"))
Sorted(paths) ==
    [k \in DOMAIN paths |->
        FileNames[CHOOSE r \in DOMAIN FileNames :
            Cardinality({q \in DOMAIN paths :
                \E rq \in DOMAIN FileNames : FileNames[rq] = paths[q] /\ rq <= r}) = k
            /\ \E q \in DOMAIN paths : paths[q] = FileNames[r]]]

\* the h.update(p.read_bytes()) calls over the paths from position k on; the
\* hash is taken to be collision-free, so the digest is the data fed to it
RECURSIVE HashUpdates(_, _, _)
HashUpdates(dir, paths, k) ==
    IF k > Len(paths) THEN <<>>
    ELSE dir[paths[k]] \o HashUpdates(dir, paths, k + 1)

\* fingerprint_directory when glob enumerates the files in the given order
fingerprint_enumerated(dir, enumerated) == HashUpdates(dir, Sorted(enumerated), 1)

fingerprint_directory(dir) ==
    fingerprint_enumerated(dir, CHOOSE enumerated \in Enumerations : TRUE)

\* (a missing stored fingerprint taken as "unchanged")
RebuildOnlyWithStoredFingerprint(prev_fp, new_fp) == prev_fp # <<>> /\ prev_fp # new_fp

should_rebuild_features(prev_fp, new_fp) == prev_fp # new_fp

should_retrain_models(prev_fp, feature_fp) == prev_fp # feature_fp

RECURSIVE Insert(_, _)
Insert(x, sorted) ==
    IF sorted = <<>> THEN <<x>>
    ELSE IF x <= Head(sorted) THEN <<x>> \o sorted
    ELSE <<Head(sorted)>> \o Insert(x, Tail(sorted))

RECURSIVE Sort(_)
Sort(seq) == IF seq = <<>> THEN <<>> ELSE Insert(Head(seq), Sort(Tail(seq)))

RECURSIVE SumSeq(_)
SumSeq(seq) == IF seq = <<>> THEN 0 ELSE Head(seq) + SumSeq(Tail(seq))

Max(a, b) == IF a >= b THEN a ELSE b

\* pandas / numpy quantile with linear interpolation at position
\* (pnum / pden) * (n - 1) of the sorted values; the result is scaled by pden
QuantileScaled(values, pnum, pden) ==
    LET sorted == Sort(values)
        n == Len(sorted)
        pos == pnum * (n - 1)
        i == pos \div pden
        frac == pos % pden
    IN  IF frac = 0 THEN pden * sorted[i + 1]
        ELSE pden * sorted[i + 1] + frac * (sorted[i + 2] - sorted[i + 1])

\* get_snapshot_date defaults
snapshot_quantile_fifths == 4
min_history_days == 30

OrderDays(orders) == [k \in 1..Len(orders) |-> orders[k][2]]

\* get_snapshot_date, in fifths of a day; raises on an empty orders table
SnapshotRaises(orders) == orders = <<>>

get_snapshot_date(orders) ==
    LET days == OrderDays(orders)
        snapshot == QuantileScaled(days, snapshot_quantile_fifths, 5)
        min_allowed_snapshot == 5 * (Sort(days)[1] + min_history_days)
    IN  Max(snapshot, min_allowed_snapshot)

\* targets.py
CHURN_WINDOW_DAYS == 90
CLV_HORIZON_DAYS == 90

\* sum of order_value over the order rows with the indexes in keep
RECURSIVE SumValues(_, _)
SumValues(orders, keep) ==
    IF keep = {} THEN 0
    ELSE LET k == CHOOSE k \in keep : TRUE
         IN  orders[k][3] + SumValues(orders, keep \ {k})

\* aggregate_orders: total_spend per customer up to the snapshot, 0 for none
\* (order days are compared in fifths of a day, as the snapshot is)
total_spend(orders, snapshot, c) ==
    LET o == {k \in 1..Len(orders) : orders[k][1] = c /\ 5 * orders[k][2] <= snapshot}
    IN  SumValues(orders, o)

\* the order rows of build_churn_target / build_clv_target's "future" frame
FutureOrders(orders, snapshot, c, window_days) ==
    {k \in 1..Len(orders) :
        /\ orders[k][1] = c
        /\ 5 * orders[k][2] > snapshot
        /\ 5 * orders[k][2] <= snapshot + 5 * window_days}

\* build_churn_target: no order in the window after the snapshot
churn_90d(orders, snapshot, c) ==
    FutureOrders(orders, snapshot, c, CHURN_WINDOW_DAYS) = {}

\* build_clv_target
future_90d_spend(orders, snapshot, c) ==
    SumValues(orders, FutureOrders(orders, snapshot, c, CLV_HORIZON_DAYS))

\* add_temporal_features: whole days from the customer's last order up to the
\* snapshot; a customer without orders has none and gets 0 (numeric safety)
recency_days(orders, snapshot, c) ==
    LET o == {k \in 1..Len(orders) : orders[k][1] = c /\ 5 * orders[k][2] <= snapshot}
    IN  IF o = {} THEN 0
        ELSE LET last == CHOOSE k \in o : \A j \in o : orders[j][2] <= orders[k][2]
             IN  (snapshot - 5 * orders[last][2]) \div 5

\* the numeric feature columns kept in the tables
NumericCols == {"recency_days", "total_spend"}

\* the feature table one family gets from build_customer_features
FeatureTable(family, orders, snapshot) ==
    [c \in Customers |->
        [recency_days |-> recency_days(orders, snapshot, c),
         total_spend |-> total_spend(orders, snapshot, c),
         target |-> CASE family = "churn" ->
                             IF churn_90d(orders, snapshot, c) THEN 1 ELSE 0
                      [] family = "clv" -> future_90d_spend(orders, snapshot, c)
                      [] OTHER -> 0]]

\* the files build_customer_features leaves when it writes the first k of the
\* three tables (churn, clv, segmentation, in that order) and then raises, or
\* all three (k = 3)
FamilyOrder == <<"churn", "clv", "segmentation">>

FeaturesWritten(old, dir, k) ==
    LET snapshot == get_snapshot_date(dir.orders)
    IN  [f \in Families |->
            IF \E j \in 1..k : FamilyOrder[j] = f
            THEN <<FeatureTable(f, dir.orders, snapshot)>>
            ELSE old[f]]

\* a numeric column of a table, in row order
Column(table, col) == [k \in 1..Cardinality(Customers) |-> table[k][col]]

\* save_baseline_stats: quantiles 0.1, 0.5, 0.9 of every numeric column of the
\* features (the target is dropped), in tenths
BaselineStatsOf(table) ==
    [col \in NumericCols |->
        <<QuantileScaled(Column(table, col), 1, 10),
          QuantileScaled(Column(table, col), 5, 10),
          QuantileScaled(Column(table, col), 9, 10)>>]

EmptyRegistry ==
    /\ features = [f \in Families |-> <<>>]
    /\ artifacts = [f \in Families |-> <<>>]
    /\ champion = [f \in Families |-> <<>>]
    /\ baseline_stats = [f \in Families |-> <<>>]

\* run_pipeline.main is not running
Idle == {"idle", "done", "failed"}

\* load_state's result for a missing, empty or unparseable file: {}
\* (state.get(key) of a missing key is None, the empty sequence)
EmptyState == [raw_data_fingerprint |-> <<>>, feature_fingerprint |-> <<>>]

\* the locals of main before it has run
NoRun ==
    [run_id |-> 0, content |-> <<>>, state |-> EmptyState, raw_fp |-> <<>>,
     rebuild_features |-> FALSE, feature_fp |-> <<>>, drift |-> <<>>,
     fp_changed |-> <<>>, retrain_models |-> <<>>,
     preds |-> [f \in Families |-> <<>>], log |-> <<>>]

NoPrevRun ==
    [status |-> "idle", content |-> <<>>, raw_fp |-> <<>>, rebuild_features |-> FALSE,
     fp_changed |-> <<>>, retrain_models |-> <<>>]

\* no pipeline run has happened: no state file, no monitoring files, no snapshot
\* no promote_champion or load_champion call is in progress
NoChampionCall ==
    /\ promote_call = [pc |-> "idle", champion |-> <<>>, calls |-> 0]
    /\ load_call = [pc |-> "idle", text |-> <<>>, result |-> <<>>]

\* nothing outside the pipeline is in use: no drift report has been saved, no
\* DataLoader, RateLimiter or second KillSwitchManager has been constructed
NoDriftDir == drift_dir = <<>>

NoLoader == loader = <<>>

NoRateLimiter == rate_limiter = <<>>

NoManagers == managers = <<>>

ServicesIdle == NoDriftDir /\ NoLoader /\ NoRateLimiter /\ NoManagers

PipelineIdle ==
    /\ state_store = <<>>
    /\ pc = "idle"
    /\ run = NoRun
    /\ prev_run = NoPrevRun
    /\ last_success_features = [f \in Families |-> <<>>]
    /\ drift_history = [f \in Families |-> <<>>]
    /\ failed_runs = 0
    /\ snapshots = {}
    /\ outputs = <<>>

----------------------------------------------------------------------------
(* Kill switches: safeguards/kill_switch.py *)

Last(seq) == seq[Len(seq)]

Scopes == {"model_version", "model_type"}
Targets == {"churn", "clv"}

\* f"{scope.value}_{target}_{datetime.now().strftime('%Y%m%d_%H%M%S')}"
KillSwitchId(scope, target, t) == <<scope, target, t>>

SwitchIds == {kill_switches[i].id : i \in 1..Len(kill_switches)}

IndexOfId(id) == CHOOSE i \in 1..Len(kill_switches) : kill_switches[i].id = id

\* self.config["kill_switches"][kill_switch_id] = kill_switch
\* a key already present keeps its place in the dict and gets the new value
StoreSwitch(ks) ==
    IF ks.id \in SwitchIds
    THEN [kill_switches EXCEPT ![IndexOfId(ks.id)] = ks]
    ELSE Append(kill_switches, ks)

activate_kill_switch(scope, target) ==
    LET id == KillSwitchId(scope, target, now)
        ks == [id |-> id, scope |-> scope, target |-> target, status |-> "active"]
    IN  /\ Len(activation_history) < MaxHistory
        /\ kill_switches' = StoreSwitch(ks)
        /\ activation_history' =
               Append(activation_history, [kill_switch_id |-> id, action |-> "activated"])
        /\ UNCHANGED <<now, promo_vars, call_vars, service_vars, data_vars, registry_vars, pipe_vars>>

\* returns True
DeactivateOk(id) ==
    /\ id \in SwitchIds
    /\ kill_switches[IndexOfId(id)].status = "active"

\* deactivate_kill_switch that logs the call also when it returns False
deactivate_kill_switchLogsFailure(id) ==
    /\ Len(activation_history) < MaxHistory
    /\ kill_switches' =
           IF DeactivateOk(id)
           THEN [kill_switches EXCEPT ![IndexOfId(id)].status = "deactivated"]
           ELSE kill_switches
    /\ activation_history' =
           Append(activation_history, [kill_switch_id |-> id, action |-> "deactivated"])
    /\ UNCHANGED <<now, promo_vars, call_vars, service_vars, data_vars, registry_vars, pipe_vars>>

deactivate_kill_switch(id) ==
    /\ Len(activation_history) < MaxHistory
    /\ IF DeactivateOk(id)
       THEN /\ kill_switches' =
                   [kill_switches EXCEPT ![IndexOfId(id)].status = "deactivated"]
            /\ activation_history' =
                   Append(activation_history, [kill_switch_id |-> id, action |-> "deactivated"])
       ELSE UNCHANGED ks_vars
    /\ UNCHANGED <<now, promo_vars, call_vars, service_vars, data_vars, registry_vars, pipe_vars>>

\* is_blocked with the "return False" inside the loop: only the first switch decides
BlockedFromFirstOnly(switches, i, scope, target) ==
    /\ i <= Len(switches)
    /\ switches[i].status = "active"
    /\ switches[i].scope = scope
    /\ switches[i].target = target

\* the loop of is_blocked over config["kill_switches"].values(), from position i
RECURSIVE BlockedFrom(_, _, _, _)
BlockedFrom(switches, i, scope, target) ==
    IF i > Len(switches) THEN FALSE
    ELSE IF /\ switches[i].status = "active"
            /\ switches[i].scope = scope
            /\ switches[i].target = target
         THEN TRUE
         ELSE BlockedFrom(switches, i + 1, scope, target)

is_blocked(scope, target) == BlockedFrom(kill_switches, 1, scope, target)

\* prediction values, in thousandths: below and above the churn range [0, 1],
\* at and above max_clv
max_clv == 100000000
\* float("nan"), kept apart from every number: each comparison with it is false
NaN == -1000000000
Predictions == {-500, 0, 500, 1000, 1500, max_clv, max_clv + 1, NaN}

\* a < b on Python floats
LessThan(a, b) == a # NaN /\ b # NaN /\ a < b

Min(a, b) == IF a < b THEN a ELSE b

\* SafeguardManager.validate_prediction without the kill-switch check
validate_predictionUnguarded(prediction, model_type) ==
    [ok |-> TRUE, value |-> <<prediction>>, note |-> "none"]

\* SafeguardManager.validate_prediction: (is_valid, clipped_value, reason); the
\* value is <<>> for None, the reason is given by its kind
validate_prediction(prediction, model_type) ==
    IF is_blocked("model_type", model_type)
    THEN [ok |-> FALSE, value |-> <<>>, note |-> "disabled by kill switch"]
    ELSE IF model_type = "churn" /\ (LessThan(prediction, 0) \/ LessThan(1000, prediction))
    THEN [ok |-> TRUE, value |-> <<Max(0, Min(1000, prediction))>>, note |-> "clipped"]
    ELSE IF model_type = "clv" /\ LessThan(prediction, 0)
    THEN [ok |-> TRUE, value |-> <<0>>, note |-> "clipped"]
    ELSE IF model_type = "clv" /\ LessThan(max_clv, prediction)
    THEN [ok |-> TRUE, value |-> <<max_clv>>, note |-> "clipped"]
    ELSE [ok |-> TRUE, value |-> <<prediction>>, note |-> "none"]

Tick ==
    /\ now < MaxTime
    /\ now' = now + 1
    /\ UNCHANGED <<ks_vars, promo_vars, call_vars, service_vars, data_vars, registry_vars, pipe_vars>>

InitKS ==
    /\ now = 0
    /\ kill_switches = <<>>
    /\ activation_history = <<>>
    /\ p_in = NoCall
    /\ p_out = <<>>
    /\ raw_dir = RawDir(<<>>)
    /\ EmptyRegistry
    /\ PipelineIdle
    /\ NoChampionCall
    /\ ServicesIdle

Activate == \E s \in Scopes, t \in Targets : activate_kill_switch(s, t)

Deactivate ==
    \E s \in Scopes, t \in Targets, k \in 0..MaxTime :
        deactivate_kill_switch(KillSwitchId(s, t, k))

NextKS == Activate \/ Deactivate \/ Tick

SpecKS == InitKS /\ [][NextKS]_vars

----------------------------------------------------------------------------
(* Kill switch claims *)

\* the stored switches that are active on a scope and target
ActiveOn(scope, target) ==
    {i \in 1..Len(kill_switches) :
        /\ kill_switches[i].status = "active"
        /\ kill_switches[i].scope = scope
        /\ kill_switches[i].target = target}

\* C10: after any sequence of activations and deactivations, is_blocked(scope,
\* target) is True exactly when a stored switch is active with that scope and
\* target; deactivating one of several such switches leaves the target blocked.
C10_BlockedIffActiveSwitch ==
    /\ [](\A s \in Scopes, t \in Targets :
            is_blocked(s, t) <=> ActiveOn(s, t) # {})
    /\ [][\A s \in Scopes, t \in Targets :
            (/\ Cardinality(ActiveOn(s, t)) >= 2
             /\ Len(activation_history') = Len(activation_history) + 1
             /\ activation_history'[Len(activation_history')].action = "deactivated")
            => is_blocked(s, t)']_vars

\* one of two active switches on the same scope and target was deactivated,
\* the older one, and the target is still blocked
C10_Witness ==
    \E i, j \in 1..Len(kill_switches) :
        /\ i < j
        /\ kill_switches[i].scope = kill_switches[j].scope
        /\ kill_switches[i].target = kill_switches[j].target
        /\ kill_switches[i].status = "deactivated"
        /\ kill_switches[j].status = "active"
        /\ Len(activation_history) > 0
        /\ activation_history[Len(activation_history)].action = "deactivated"
        /\ is_blocked(kill_switches[j].scope, kill_switches[j].target)

\* the result of validate_prediction for a blocked model type
Disabled == [ok |-> FALSE, value |-> <<>>, note |-> "disabled by kill switch"]

\* the step is an activation of a model_type switch on target t
ActivatesModelType(t) ==
    /\ Len(activation_history') = Len(activation_history) + 1
    /\ Last(activation_history').action = "activated"
    /\ Last(activation_history').kill_switch_id[1] = "model_type"
    /\ Last(activation_history').kill_switch_id[2] = t

\* C11: right after activate_kill_switch(model_type, t) returns, and for as long
\* as a model_type switch on t is active, validate_prediction returns (False,
\* None, disabled by kill switch) for every prediction value of t; when no such
\* switch is active it returns ok = True with a value, so the disabled result is
\* never that of a valid or clipped prediction.
C11_DisabledWhileSwitchActive ==
    /\ [][\A t \in Targets : ActivatesModelType(t) =>
              \A p \in Predictions : validate_prediction(p, t)' = Disabled]_vars
    /\ [](\A t \in Targets, p \in Predictions :
            IF ActiveOn("model_type", t) # {}
            THEN validate_prediction(p, t) = Disabled
            ELSE /\ validate_prediction(p, t).ok
                 /\ validate_prediction(p, t).value # <<>>)

\* a model_type switch on churn was activated, predictions were disabled, the
\* switch was deactivated and validate_prediction accepts again
C11_Witness ==
    /\ Len(activation_history) >= 2
    /\ activation_history[1].action = "activated"
    /\ activation_history[1].kill_switch_id[1] = "model_type"
    /\ activation_history[1].kill_switch_id[2] = "churn"
    /\ Last(activation_history).action = "deactivated"
    /\ Last(activation_history).kill_switch_id = activation_history[1].kill_switch_id
    /\ validate_prediction(1500, "churn") = [ok |-> TRUE, value |-> <<1000>>, note |-> "clipped"]

\* C23: every step of a KillSwitchManager either leaves kill_switches and
\* activation_history as they are, or appends exactly one record to the history
\* and keeps every earlier record: an "activated" record for a switch that is
\* stored active afterwards, or a "deactivated" record for a switch that was
\* stored active before and differs afterwards only in its status.  A
\* deactivation of an unknown or inactive switch therefore changes nothing.
C23_HistoryAppendOnly ==
    [][\/ UNCHANGED ks_vars
       \/ /\ Len(activation_history') = Len(activation_history) + 1
          /\ SubSeq(activation_history', 1, Len(activation_history)) = activation_history
          /\ LET record == Last(activation_history')
                 id == record.kill_switch_id
             IN  IF record.action = "activated"
                 THEN \E i \in 1..Len(kill_switches') :
                        /\ kill_switches'[i].id = id
                        /\ kill_switches'[i].status = "active"
                 ELSE /\ record.action = "deactivated"
                      /\ DeactivateOk(id)
                      /\ kill_switches' =
                             [kill_switches EXCEPT ![IndexOfId(id)].status = "deactivated"]]_vars

\* an activation, its deactivation and a second activation have each left one
\* record, in this order
C23_Witness ==
    /\ Len(activation_history) >= 3
    /\ activation_history[1].action = "activated"
    /\ activation_history[2].action = "deactivated"
    /\ activation_history[2].kill_switch_id = activation_history[1].kill_switch_id
    /\ activation_history[3].action = "activated"
    /\ Len(kill_switches) = 2

\* the positions of the history records with the given action
HistoryOf(action) ==
    {i \in 1..Len(activation_history) : activation_history[i].action = action}

\* the history records with the given action on a switch of scope s, target t
HistoryOn(action, s, t) ==
    {i \in HistoryOf(action) :
        /\ activation_history[i].kill_switch_id[1] = s
        /\ activation_history[i].kill_switch_id[2] = t}

\* C30: every activation has created a record of its own: there are as many
\* stored switches as activations, and a target with more activations than
\* successful deactivations is blocked.
C30_EveryActivationStored ==
    /\ Len(kill_switches) = Cardinality(HistoryOf("activated"))
    /\ \A s \in Scopes, t \in Targets :
          Cardinality(HistoryOn("activated", s, t)) >
              Cardinality(HistoryOn("deactivated", s, t))
          => is_blocked(s, t)

\* what the code guarantees: the ids of the stored switches differ from one
\* another, and there are as many stored switches as ids that were activated
C30_OneRecordPerId ==
    /\ \A i, j \in 1..Len(kill_switches) :
          kill_switches[i].id = kill_switches[j].id => i = j
    /\ Len(kill_switches) =
          Cardinality({activation_history[i].kill_switch_id : i \in HistoryOf("activated")})

\* the domain of a model type's predictions: churn in [0, 1], CLV in
\* [0, 100000], in thousandths
InDomain(value, model_type) ==
    /\ value # NaN
    /\ 0 <= value
    /\ value <= (IF model_type = "churn" THEN 1000 ELSE 100000000)

\* what the claim asks of validate_prediction(p, t) when t is not blocked
ValidatedInDomain(p, t) ==
    LET result == validate_prediction(p, t)
    IN  /\ result.ok
        /\ result.value # <<>>
        /\ InDomain(result.value[1], t)
        /\ InDomain(p, t) => result.value = <<p>>
        /\ result.note # "none" <=> result.value # <<p>>

\* C22: for every prediction value and model type churn or clv that is not
\* blocked, validate_prediction returns a value inside the domain, returns the
\* input when it already lies inside the domain, and returns a note exactly
\* when the returned value differs from the input.
C22_ValidatedValueInDomain ==
    \A t \in {"churn", "clv"}, p \in Predictions :
        ~is_blocked("model_type", t) => ValidatedInDomain(p, t)

\* C22 for the prediction values that are numbers
C22_NumbersInDomain ==
    \A t \in {"churn", "clv"}, p \in Predictions \ {NaN} :
        ~is_blocked("model_type", t) => ValidatedInDomain(p, t)

----------------------------------------------------------------------------
(* Promotion policy: models/promotion.py *)

\* PromotionPolicy.__init__ defaults, in percent
min_improvement == 1
max_secondary_regression == 5

Abs(x) == IF x < 0 THEN -x ELSE x

\* a relative change num/den; den = 0 stands for float('inf')
Frac(n, d) == [num |-> n, den |-> d]
Infinite == Frac(1, 0)

\* f < pct / 100, for den >= 0; inf is below nothing
FracLT(f, pct) == IF f.den = 0 THEN FALSE ELSE 100 * f.num < pct * f.den

Decision(promote, reason) == [promote |-> promote, reason |-> reason]

evaluate_churn_promotion(challenger_metrics, champion_metrics, baseline_metrics) ==
    LET challenger_pr == challenger_metrics.pr_auc
        champion_pr == champion_metrics.pr_auc
        pr_improvement ==
            IF champion_pr > 0 THEN Frac(challenger_pr - champion_pr, champion_pr)
            ELSE IF challenger_pr > 0 THEN Infinite ELSE Frac(0, 1)
        challenger_roc == challenger_metrics.roc_auc
        champion_roc == champion_metrics.roc_auc
    IN  IF FracLT(pr_improvement, min_improvement)
        THEN Decision(FALSE, "Insufficient PR-AUC improvement")
        ELSE IF /\ champion_roc > 0
                /\ FracLT(Frac(challenger_roc - champion_roc, champion_roc),
                          -max_secondary_regression)
        THEN Decision(FALSE, "ROC-AUC regression detected")
        ELSE IF /\ Len(baseline_metrics) > 0
                /\ challenger_pr <= baseline_metrics[1].pr_auc
        THEN Decision(FALSE, "Challenger does not outperform baseline")
        ELSE Decision(TRUE, "Promoted: PR-AUC improved")

evaluate_clv_promotion(challenger_clv, champion_clv, baseline_metrics) ==
    LET challenger_rmse == challenger_clv.rmse
        champion_rmse == champion_clv.rmse
        rmse_improvement ==
            IF champion_rmse > 0 THEN Frac(champion_rmse - challenger_rmse, champion_rmse)
            ELSE Frac(0, 1)
        challenger_mae == challenger_clv.mae
        champion_mae == champion_clv.mae
        challenger_r2 == challenger_clv.r2
        champion_r2 == champion_clv.r2
    IN  IF FracLT(rmse_improvement, min_improvement)
        THEN Decision(FALSE, "Insufficient RMSE improvement")
        ELSE IF /\ champion_mae > 0
                /\ FracLT(Frac(champion_mae - challenger_mae, champion_mae),
                          -max_secondary_regression)
        THEN Decision(FALSE, "MAE regression detected")
        ELSE IF /\ champion_r2 > 0
                /\ FracLT(Frac(challenger_r2 - champion_r2, Abs(champion_r2)),
                          -max_secondary_regression)
        THEN Decision(FALSE, "R2 regression detected")
        ELSE IF /\ Len(baseline_metrics) > 0
                /\ challenger_rmse >= baseline_metrics[1].rmse
        THEN Decision(FALSE, "Challenger does not outperform baseline")
        ELSE Decision(TRUE, "Promoted: RMSE improved")

evaluate_segmentation_promotion(challenger_metrics, champion_metrics) ==
    LET challenger_sil == challenger_metrics.silhouette
        champion_sil == champion_metrics.silhouette
        improvement ==
            IF champion_sil > 0 THEN Frac(challenger_sil - champion_sil, champion_sil)
            ELSE IF challenger_sil > 0 THEN Infinite ELSE Frac(0, 1)
    IN  IF FracLT(improvement, min_improvement)
        THEN Decision(FALSE, "Insufficient silhouette improvement")
        ELSE Decision(TRUE, "Promoted: Silhouette improved")

\* Metric values the evaluations are applied to: thresholds hit exactly, just
\* missed and just passed (505/500 = +1%, 665/700 = -5%, 99/100 = -1%, ...).
ChurnMetrics == [pr_auc : {0, 500, 504, 505}, roc_auc : {0, 700, 665, 664}]
ClvMetrics == [rmse : {100, 99, 98}, mae : {100, 105, 106}, r2 : {-50, -10, 0, 40, 38, 37}]

Optional(S) == {<<>>} \cup {<<x>> : x \in S}

PromoInputs ==
    [fn : {"churn"}, challenger_metrics : ChurnMetrics, champion_metrics : ChurnMetrics,
     baseline_metrics : Optional([pr_auc : {500, 505}])]
    \cup
    [fn : {"clv"}, challenger_metrics : ClvMetrics, champion_metrics : ClvMetrics,
     baseline_metrics : Optional([rmse : {99, 100}])]

EvaluateChurn ==
    /\ p_in.fn = "churn"
    /\ p_out = <<>>
    /\ p_out' = <<evaluate_churn_promotion(p_in.challenger_metrics, p_in.champion_metrics,
                                           p_in.baseline_metrics)>>
    /\ UNCHANGED <<now, ks_vars, p_in, call_vars, service_vars, data_vars, registry_vars, pipe_vars>>

EvaluateClv ==
    /\ p_in.fn = "clv"
    /\ p_out = <<>>
    /\ p_out' = <<evaluate_clv_promotion(p_in.challenger_metrics, p_in.champion_metrics,
                                         p_in.baseline_metrics)>>
    /\ UNCHANGED <<now, ks_vars, p_in, call_vars, service_vars, data_vars, registry_vars, pipe_vars>>

InitPromo ==
    /\ now = 0
    /\ kill_switches = <<>>
    /\ activation_history = <<>>
    /\ p_in \in PromoInputs
    /\ p_out = <<>>
    /\ raw_dir = RawDir(<<>>)
    /\ EmptyRegistry
    /\ PipelineIdle
    /\ NoChampionCall
    /\ ServicesIdle

NextPromo == EvaluateChurn \/ EvaluateClv

SpecPromo == InitPromo /\ [][NextPromo]_vars

\* Inputs with a champion whose primary metric is zero (for the higher-is-better
\* metrics this is also what .get(key, 0) gives for an absent key), and
\* segmentation metrics with the secondary metrics at, just inside and just
\* outside a 5% regression.
SegMetrics ==
    [silhouette : {0, 500, 504, 505}, davies_bouldin : {100, 105, 106},
     calinski_harabasz : {100, 95, 94}]
ClvEdgeMetrics == [rmse : {0, 98, 100}, mae : {100, 105, 106}, r2 : {0, 40, 38, 37}]

PromoAllInputs ==
    [fn : {"churn"}, challenger_metrics : ChurnMetrics, champion_metrics : ChurnMetrics,
     baseline_metrics : {<<>>}]
    \cup
    [fn : {"clv"}, challenger_metrics : ClvEdgeMetrics, champion_metrics : ClvEdgeMetrics,
     baseline_metrics : {<<>>}]
    \cup
    [fn : {"segmentation"}, challenger_metrics : SegMetrics, champion_metrics : SegMetrics,
     baseline_metrics : {<<>>}]

EvaluateSegmentation ==
    /\ p_in.fn = "segmentation"
    /\ p_out = <<>>
    /\ p_out' = <<evaluate_segmentation_promotion(p_in.challenger_metrics,
                                                  p_in.champion_metrics)>>
    /\ UNCHANGED <<now, ks_vars, p_in, call_vars, service_vars, data_vars, registry_vars, pipe_vars>>

InitPromoAll ==
    /\ now = 0
    /\ kill_switches = <<>>
    /\ activation_history = <<>>
    /\ p_in \in PromoAllInputs
    /\ p_out = <<>>
    /\ raw_dir = RawDir(<<>>)
    /\ EmptyRegistry
    /\ PipelineIdle
    /\ NoChampionCall
    /\ ServicesIdle

NextPromoAll == EvaluateChurn \/ EvaluateClv \/ EvaluateSegmentation

SpecPromoAll == InitPromoAll /\ [][NextPromoAll]_vars

----------------------------------------------------------------------------
(* Champion registry and the training runs:
   models/champion_manager.py, models/promotion_policy.py, models/*/train.py *)

MaxTrainRuns == 3

TrainRuns == Len(artifacts["churn"]) + Len(artifacts["clv"]) + Len(artifacts["segmentation"])

\* the versions in the names of the family's artifact files
ArtifactVersions(family) ==
    {artifacts[family][k].version : k \in DOMAIN artifacts[family]}

\* next_version returning the highest existing version itself
next_versionReused(family) ==
    LET versions == ArtifactVersions(family)
    IN  IF versions = {} THEN 1
        ELSE CHOOSE v \in versions : \A w \in versions : w <= v

\* max(versions, default=0) + 1 over the artifact files of the family
next_version(family) ==
    LET versions == ArtifactVersions(family)
    IN  IF versions = {} THEN 1
        ELSE (CHOOSE v \in versions : \A w \in versions : w <= v) + 1

load_champion(family) == champion[family]

\* promote_champion: the whole champion.json is rewritten
ChampionRecord(model_name, version, metrics, reason) ==
    [model_name |-> model_name, version |-> version, metrics |-> metrics,
     promoted_at |-> now, reason |-> reason]

\* models/promotion_policy.py, imported by the churn and segmentation trainers
better_churn(new, old) == new.pr_auc > old.pr_auc

better_segmentation(new, old) == new.silhouette > old.silhouette

\* the metrics a training run can end with (the model internals are opaque)
ChurnTrainMetrics == [pr_auc : {500, 502}, roc_auc : {700}]
ClvTrainMetrics == [purchase_auc : {800}, clv : [rmse : {200, 199, 198}, mae : {100}, r2 : {40}]]
SegTrainMetrics == [silhouette : {500, 502}, davies_bouldin : {100}, calinski_harabasz : {100}]

\* the metadata json written beside the artifact; dataset_fingerprint hashes the
\* training table (the hash is taken to be collision-free)
Meta(version, df, metrics) == [version |-> version, dataset_fingerprint |-> df, metrics |-> metrics]

\* churn/train.py, the condition of the promotion "if"
\* (written with "and": a missing champion is never replaced)
ChurnPromotesNeverFirst(current, metrics) ==
    Len(current) > 0 /\ better_churn(metrics, current[1].metrics)

ChurnPromotes(current, metrics) ==
    Len(current) = 0 \/ better_churn(metrics, current[1].metrics)

\* clv/train.py: <<promote, reason>> of the champion logic
ClvDecision(current, metrics) ==
    IF Len(current) = 0
    THEN Decision(TRUE, "Initial champion model")
    ELSE evaluate_clv_promotion(metrics.clv, current[1].metrics.clv, <<>>)

\* segmentation/train.py, the condition of the promotion "if"
SegPromotes(current, metrics) ==
    Len(current) = 0 \/ better_segmentation(metrics, current[1].metrics)

\* churn/train.py main()
TrainChurnRun(metrics) ==
    LET df == features["churn"][1]
        version == next_version("churn")
        current == load_champion("churn")
    IN  /\ artifacts' = [artifacts EXCEPT !["churn"] = Append(@, Meta(version, df, metrics))]
        /\ champion' =
               IF ChurnPromotes(current, metrics)
               THEN [champion EXCEPT !["churn"] =
                        <<ChampionRecord("churn", version, metrics,
                                         "Auto-promotion: better PR-AUC")>>]
               ELSE champion
        /\ baseline_stats' = [baseline_stats EXCEPT !["churn"] = <<BaselineStatsOf(df)>>]

\* clv/train.py main()
TrainClvRun(metrics) ==
    LET df == features["clv"][1]
        version == next_version("clv")
        current == load_champion("clv")
        decision == ClvDecision(current, metrics)
    IN  /\ artifacts' = [artifacts EXCEPT !["clv"] = Append(@, Meta(version, df, metrics))]
        /\ IF decision.promote
           THEN /\ champion' = [champion EXCEPT !["clv"] =
                        <<ChampionRecord("clv_two_stage", version, metrics, decision.reason)>>]
                /\ baseline_stats' =
                        [baseline_stats EXCEPT !["clv"] = <<BaselineStatsOf(df)>>]
           ELSE UNCHANGED <<champion, baseline_stats>>

\* segmentation/train.py main() with promote_champion called outside the "if"
TrainSegmentationRunAlwaysPromote(metrics) ==
    LET df == features["segmentation"][1]
        version == next_version("segmentation")
        current == load_champion("segmentation")
    IN  /\ artifacts' =
               [artifacts EXCEPT !["segmentation"] = Append(@, Meta(version, df, metrics))]
        /\ champion' = [champion EXCEPT !["segmentation"] =
                <<ChampionRecord("customer_segmentation", version, metrics,
                                 "Auto-promotion: better silhouette score")>>]
        /\ IF SegPromotes(current, metrics)
           THEN baseline_stats' =
                    [baseline_stats EXCEPT !["segmentation"] = <<BaselineStatsOf(df)>>]
           ELSE UNCHANGED baseline_stats

\* segmentation/train.py main()
TrainSegmentationRun(metrics) ==
    LET df == features["segmentation"][1]
        version == next_version("segmentation")
        current == load_champion("segmentation")
    IN  /\ artifacts' =
               [artifacts EXCEPT !["segmentation"] = Append(@, Meta(version, df, metrics))]
        /\ IF SegPromotes(current, metrics)
           THEN /\ champion' = [champion EXCEPT !["segmentation"] =
                        <<ChampionRecord("customer_segmentation", version, metrics,
                                         "Auto-promotion: better silhouette score")>>]
                /\ baseline_stats' =
                        [baseline_stats EXCEPT !["segmentation"] = <<BaselineStatsOf(df)>>]
           ELSE UNCHANGED <<champion, baseline_stats>>

\* a training run needs the family's feature table (read_parquet raises without)
CanTrain(family) ==
    /\ Len(features[family]) > 0
    /\ TrainRuns < MaxTrainRuns

train_frame == <<ks_vars, promo_vars, call_vars, service_vars, data_vars, pipe_vars>>

\* a training run takes time: the next run's timestamps are later
TimePasses == now' = now + 1

TrainChurn ==
    /\ CanTrain("churn")
    /\ \E m \in ChurnTrainMetrics : TrainChurnRun(m)
    /\ TimePasses
    /\ UNCHANGED train_frame

TrainClv ==
    /\ CanTrain("clv")
    /\ \E m \in ClvTrainMetrics : TrainClvRun(m)
    /\ TimePasses
    /\ UNCHANGED train_frame

TrainSegmentation ==
    /\ CanTrain("segmentation")
    /\ \E m \in SegTrainMetrics : TrainSegmentationRun(m)
    /\ TimePasses
    /\ UNCHANGED train_frame

\* new raw files are delivered
ChangeRaw ==
    /\ pc \in Idle
    /\ \E d \in RawDirs : raw_dir' = d
    /\ UNCHANGED <<now, ks_vars, promo_vars, call_vars, service_vars, features, registry_vars, pipe_vars>>

\* build_customer_features run on the raw directory (its __main__)
BuildFeatures ==
    /\ IF SnapshotRaises(raw_dir.orders)
       THEN UNCHANGED features
       ELSE features' = FeaturesWritten(features, raw_dir, 3)
    /\ UNCHANGED <<now, ks_vars, promo_vars, call_vars, service_vars, raw_dir, registry_vars, pipe_vars>>

InitTrain ==
    /\ now = 0
    /\ kill_switches = <<>>
    /\ activation_history = <<>>
    /\ p_in = NoCall
    /\ p_out = <<>>
    /\ raw_dir \in RawDirs
    /\ EmptyRegistry
    /\ PipelineIdle
    /\ NoChampionCall
    /\ ServicesIdle

NextTrain ==
    \/ TrainChurn
    \/ TrainClv
    \/ TrainSegmentation
    \/ ChangeRaw
    \/ BuildFeatures

SpecTrain == InitTrain /\ [][NextTrain]_vars

----------------------------------------------------------------------------
(* promote_champion and load_champion as two calls in progress at once on the
   champion.json of one family: models/champion_manager.py.  Path.write_text
   opens the file with mode "w", which creates or truncates it, and the text
   reaches the file when the buffer is flushed on close. *)

MaxPromotions == 3

\* the family whose champion.json the two calls work on
PromotedFamily == "churn"

\* the content of a file that was opened for writing and not yet written to
EmptyText == [text |-> ""]

\* json.loads(text): what load_champion returns or raises
json_loads(content) ==
    IF content = EmptyText
    THEN [raised |-> "JSONDecodeError"]
    ELSE [returned |-> content]

champion_frame == <<now, ks_vars, promo_vars, data_vars, artifacts, baseline_stats,
                    pipe_vars, service_vars>>

\* promote_champion, lines 20-28: build the record, open champion.json for writing
PromoteOpen ==
    /\ promote_call.pc = "idle"
    /\ promote_call.calls < MaxPromotions
    /\ \E metrics \in ChurnTrainMetrics :
          promote_call' =
              [pc |-> "opened",
               champion |-> <<ChampionRecord("churn", promote_call.calls + 1, metrics,
                                             "Auto-promotion: better PR-AUC")>>,
               calls |-> promote_call.calls + 1]
    /\ champion' = [champion EXCEPT ![PromotedFamily] = <<EmptyText>>]
    /\ UNCHANGED <<champion_frame, load_call>>

\* promote_champion, lines 28-30: write json.dumps(champion) and close
PromoteWrite ==
    /\ promote_call.pc = "opened"
    /\ champion' = [champion EXCEPT ![PromotedFamily] = promote_call.champion]
    /\ promote_call' = [promote_call EXCEPT !.pc = "idle", !.champion = <<>>]
    /\ UNCHANGED <<champion_frame, load_call>>

\* load_champion, lines 7-9: return None when champion.json does not exist
LoadExists ==
    /\ load_call.pc \in {"idle", "returned"}
    /\ load_call' =
           IF champion[PromotedFamily] = <<>>
           THEN [pc |-> "returned", text |-> <<>>, result |-> <<[returned |-> "None"]>>]
           ELSE [pc |-> "read_text", text |-> <<>>, result |-> <<>>]
    /\ UNCHANGED <<champion_frame, champion, promote_call>>

\* load_champion, line 10: path.read_text()
LoadReadText ==
    /\ load_call.pc = "read_text"
    /\ load_call' = [load_call EXCEPT !.pc = "json_loads",
                                      !.text = champion[PromotedFamily]]
    /\ UNCHANGED <<champion_frame, champion, promote_call>>

\* load_champion, line 10: json.loads of the text read
LoadJson ==
    /\ load_call.pc = "json_loads"
    /\ load_call' = [load_call EXCEPT !.pc = "returned",
                                      !.result = <<json_loads(load_call.text[1])>>]
    /\ UNCHANGED <<champion_frame, champion, promote_call>>

InitChampion ==
    /\ now = 0
    /\ kill_switches = <<>>
    /\ activation_history = <<>>
    /\ p_in = NoCall
    /\ p_out = <<>>
    /\ raw_dir = RawDir(<<>>)
    /\ EmptyRegistry
    /\ PipelineIdle
    /\ NoChampionCall
    /\ ServicesIdle

NextChampion == PromoteOpen \/ PromoteWrite \/ LoadExists \/ LoadReadText \/ LoadJson

SpecChampion == InitChampion /\ [][NextChampion]_vars

\* the records promote_champion can write
ChampionRecords ==
    {ChampionRecord("churn", version, metrics, "Auto-promotion: better PR-AUC") :
        version \in 1..MaxPromotions, metrics \in ChurnTrainMetrics}

\* C12: a load_champion call that runs while a promote_champion call on the same
\* family is in progress returns None or a complete champion record; it never
\* raises on, or returns, an empty or partial champion.json.
C12_LoadSeesCompleteRecord ==
    load_call.pc = "returned" =>
        \/ load_call.result = <<[returned |-> "None"]>>
        \/ \E record \in ChampionRecords : load_call.result = <<[returned |-> record]>>

----------------------------------------------------------------------------
(* The promotion rule as the specification states it (section 4.4), written
   without reference to the code's control flow. *)

\* the primary metric improves by at least pct percent of the champion's value;
\* a zero champion is improved on without bound by any positive higher-better score
ImprovesAtLeast(chal, champ, higher_better, pct) ==
    IF champ > 0
    THEN IF higher_better THEN 100 * (chal - champ) >= pct * champ
                          ELSE 100 * (champ - chal) >= pct * champ
    ELSE higher_better /\ chal > 0

\* a metric worsens, in its own improving direction, by more than pct percent
\* of the champion's value
RegressesMoreThan(chal, champ, higher_better, pct) ==
    /\ champ # 0
    /\ LET worsening == IF higher_better THEN champ - chal ELSE chal - champ
       IN  100 * worsening > pct * Abs(champ)

ChurnPrimaryOk(i) ==
    ImprovesAtLeast(i.challenger_metrics.pr_auc, i.champion_metrics.pr_auc, TRUE,
                    min_improvement)
ChurnSecondaryOk(i) ==
    ~RegressesMoreThan(i.challenger_metrics.roc_auc, i.champion_metrics.roc_auc, TRUE,
                       max_secondary_regression)
ChurnBaselineOk(i) ==
    \/ Len(i.baseline_metrics) = 0
    \/ i.challenger_metrics.pr_auc > i.baseline_metrics[1].pr_auc

ClvPrimaryOk(i) ==
    ImprovesAtLeast(i.challenger_metrics.rmse, i.champion_metrics.rmse, FALSE,
                    min_improvement)
ClvSecondaryOk(i) ==
    /\ ~RegressesMoreThan(i.challenger_metrics.mae, i.champion_metrics.mae, FALSE,
                          max_secondary_regression)
    /\ ~RegressesMoreThan(i.challenger_metrics.r2, i.champion_metrics.r2, TRUE,
                          max_secondary_regression)
ClvBaselineOk(i) ==
    \/ Len(i.baseline_metrics) = 0
    \/ i.challenger_metrics.rmse < i.baseline_metrics[1].rmse

\* which of the three checks, in order, is the first to fail ("none": promote)
FirstFailed(primary_ok, secondary_ok, baseline_ok) ==
    IF ~primary_ok THEN "primary"
    ELSE IF ~secondary_ok THEN "secondary"
    ELSE IF ~baseline_ok THEN "baseline"
    ELSE "none"

\* the check a result's reason string names
ReasonKind(reason) ==
    CASE reason \in {"Insufficient PR-AUC improvement", "Insufficient RMSE improvement",
                     "Insufficient silhouette improvement"} -> "primary"
      [] reason \in {"ROC-AUC regression detected", "MAE regression detected",
                     "R2 regression detected"} -> "secondary"
      [] reason = "Challenger does not outperform baseline" -> "baseline"
      [] OTHER -> "none"

ExpectedFirstFailed(i) ==
    IF i.fn = "churn"
    THEN FirstFailed(ChurnPrimaryOk(i), ChurnSecondaryOk(i), ChurnBaselineOk(i))
    ELSE FirstFailed(ClvPrimaryOk(i), ClvSecondaryOk(i), ClvBaselineOk(i))

\* C5: evaluate_churn_promotion and evaluate_clv_promotion promote exactly when
\* the primary metric improves by at least min_improvement, no secondary metric
\* regresses by more than max_secondary_regression and the challenger strictly
\* beats a supplied baseline; a rejection's reason names the first failed check.
C5_PromoteExactlyWhenChecksPass ==
    Len(p_out) > 0 =>
        /\ p_out[1].promote = (ExpectedFirstFailed(p_in) = "none")
        /\ ReasonKind(p_out[1].reason) = ExpectedFirstFailed(p_in)

\* the same statement for the churn evaluation alone
C5_ChurnOnly ==
    (Len(p_out) > 0 /\ p_in.fn = "churn") =>
        /\ p_out[1].promote = (ExpectedFirstFailed(p_in) = "none")
        /\ ReasonKind(p_out[1].reason) = ExpectedFirstFailed(p_in)

\* the same statement for the CLV evaluation when the champion's R2 is not negative
C5_ClvNonNegativeR2 ==
    (Len(p_out) > 0 /\ p_in.fn = "clv" /\ p_in.champion_metrics.r2 >= 0) =>
        /\ p_out[1].promote = (ExpectedFirstFailed(p_in) = "none")
        /\ ReasonKind(p_out[1].reason) = ExpectedFirstFailed(p_in)

\* the primary metric of an evaluation's arguments
PrimaryMetric(fn, metrics) ==
    CASE fn = "churn" -> metrics.pr_auc
      [] fn = "clv" -> metrics.rmse
      [] OTHER -> metrics.silhouette

\* C18: in each of the three evaluations, a challenger with a positive primary
\* metric passes the minimum-improvement check when the champion's primary
\* metric is zero.
C18_ZeroChampionPrimaryPasses ==
    (/\ p_out # <<>>
     /\ PrimaryMetric(p_in.fn, p_in.champion_metrics) = 0
     /\ PrimaryMetric(p_in.fn, p_in.challenger_metrics) > 0)
    => ReasonKind(p_out[1].reason) # "primary"

\* the same statement for the churn and segmentation evaluations, whose primary
\* metrics are higher-is-better
C18_ChurnAndSegmentation ==
    (/\ p_out # <<>>
     /\ p_in.fn \in {"churn", "segmentation"}
     /\ PrimaryMetric(p_in.fn, p_in.champion_metrics) = 0
     /\ PrimaryMetric(p_in.fn, p_in.challenger_metrics) > 0)
    => ReasonKind(p_out[1].reason) # "primary"

\* a secondary metric of the evaluation regresses by more than
\* max_secondary_regression
SecondaryRegresses(i) ==
    LET new == i.challenger_metrics
        old == i.champion_metrics
    IN  CASE i.fn = "churn" ->
                 RegressesMoreThan(new.roc_auc, old.roc_auc, TRUE, max_secondary_regression)
          [] i.fn = "clv" ->
                 \/ RegressesMoreThan(new.mae, old.mae, FALSE, max_secondary_regression)
                 \/ RegressesMoreThan(new.r2, old.r2, TRUE, max_secondary_regression)
          [] OTHER ->
                 \/ RegressesMoreThan(new.davies_bouldin, old.davies_bouldin, FALSE,
                                      max_secondary_regression)
                 \/ RegressesMoreThan(new.calinski_harabasz, old.calinski_harabasz, TRUE,
                                      max_secondary_regression)

\* C19: in each of the three evaluations, a challenger that passes the primary
\* check is rejected when a secondary metric of the family regresses, in its own
\* improving direction, by more than max_secondary_regression.
C19_SecondaryRegressionRejects ==
    (/\ p_out # <<>>
     /\ ReasonKind(p_out[1].reason) # "primary"
     /\ SecondaryRegresses(p_in))
    => ~p_out[1].promote

\* the same statement for the churn and CLV evaluations
C19_ChurnAndClv ==
    (/\ p_out # <<>>
     /\ p_in.fn \in {"churn", "clv"}
     /\ ReasonKind(p_out[1].reason) # "primary"
     /\ SecondaryRegresses(p_in))
    => ~p_out[1].promote

----------------------------------------------------------------------------
(* Training run claims *)

\* the family's primary metric and its improving direction (section 4.4)
PrimaryOf(family, metrics) ==
    CASE family = "churn" -> metrics.pr_auc
      [] family = "clv" -> metrics.clv.rmse
      [] OTHER -> metrics.silhouette

HigherBetter(family) == family # "clv"

\* the training run of the family wrote a new artifact in this step
Trained(family) == Len(artifacts'[family]) = Len(artifacts[family]) + 1

NewMeta(family) == artifacts'[family][Len(artifacts'[family])]

\* the promotion decision the family's trainer takes
TrainerPromotes(family, current, metrics) ==
    CASE family = "churn" -> ChurnPromotes(current, metrics)
      [] family = "clv" -> ClvDecision(current, metrics).promote
      [] OTHER -> SegPromotes(current, metrics)

\* C4: in every family's training run, an existing champion is replaced only
\* by a challenger whose primary metric improves on the champion's by at least
\* min_improvement (1% relative) in the improving direction.
C4_ReplacedOnlyOnMinImprovement ==
    [][\A f \in Families :
        (Len(champion[f]) > 0 /\ champion'[f] # champion[f])
        => ImprovesAtLeast(PrimaryOf(f, champion'[f][1].metrics),
                           PrimaryOf(f, champion[f][1].metrics),
                           HigherBetter(f), min_improvement)]_vars

\* the same statement for the CLV trainer alone, which uses PromotionPolicy
C4_ClvOnly ==
    [][(Len(champion["clv"]) > 0 /\ champion'["clv"] # champion["clv"])
        => ImprovesAtLeast(PrimaryOf("clv", champion'["clv"][1].metrics),
                           PrimaryOf("clv", champion["clv"][1].metrics),
                           FALSE, min_improvement)]_vars

\* C6: a training run of a family that has no champion record always writes
\* the newly trained version as champion, whatever its metrics.
C6_FirstVersionAlwaysChampion ==
    [][\A f \in Families :
        (Trained(f) /\ Len(champion[f]) = 0)
        => /\ Len(champion'[f]) = 1
           /\ champion'[f][1].version = NewMeta(f).version
           /\ champion'[f][1].metrics = NewMeta(f).metrics]_vars

\* every family has trained once and its first version is the champion
C6_Witness ==
    \A f \in Families :
        /\ Len(artifacts[f]) = 1
        /\ Len(champion[f]) = 1
        /\ champion[f][1].version = 1

\* C7: a training run whose challenger the promotion decision rejects
\* completes and leaves the family's champion record as it was (version,
\* metrics, promoted_at and reason).
C7_RejectionKeepsChampion ==
    [][\A f \in Families :
        (/\ Trained(f)
         /\ Len(champion[f]) > 0
         /\ ~TrainerPromotes(f, champion[f], NewMeta(f).metrics))
        => champion'[f] = champion[f]]_vars

\* a second version of a family was trained and rejected: the champion is
\* still version 1, promoted before the challenger was trained
C7_Witness ==
    \E f \in Families :
        /\ Len(artifacts[f]) = 2
        /\ Len(champion[f]) = 1
        /\ champion[f][1].version = 1
        /\ champion[f][1].promoted_at < now - 1
        /\ ~TrainerPromotes(f, champion[f], artifacts[f][2].metrics)

\* the baseline stats of the table the champion's version was trained on
ChampionBaseline(f) ==
    <<BaselineStatsOf(artifacts[f][champion[f][1].version].dataset_fingerprint)>>

\* C8: after any sequence of training runs, the family's baseline_stats.json
\* was computed from the training features of the version the champion record
\* names.
C8_BaselineIsChampions ==
    \A f \in Families :
        Len(champion[f]) > 0 => baseline_stats[f] = ChampionBaseline(f)

\* the same statement for the CLV and segmentation trainers alone
C8_ClvAndSegmentation ==
    \A f \in {"clv", "segmentation"} :
        Len(champion[f]) > 0 => baseline_stats[f] = ChampionBaseline(f)

\* a training run of family f: it has written an artifact and its metadata
Trains(f) == artifacts'[f] # artifacts[f]

\* C17: a training run of a family writes exactly one new artifact, under a
\* version one above the highest version present (1 when there is none), so
\* above every earlier version; every artifact written before stays as it was;
\* and the champion record names a version whose artifact exists.
C17_VersionsIncreaseNeverOverwritten ==
    /\ [][\A f \in Families : Trains(f) =>
              LET new == Last(artifacts'[f])
              IN  /\ Len(artifacts'[f]) = Len(artifacts[f]) + 1
                  /\ SubSeq(artifacts'[f], 1, Len(artifacts[f])) = artifacts[f]
                  /\ \A v \in ArtifactVersions(f) : v < new.version
                  /\ new.version = IF ArtifactVersions(f) = {} THEN 1
                                   ELSE 1 + Cardinality(ArtifactVersions(f))
                  /\ ArtifactVersions(f)' = ArtifactVersions(f) \cup {new.version}]_vars
    /\ [](\A f \in Families :
            champion[f] # <<>> => champion[f][1].version \in ArtifactVersions(f))

\* three versions of one family were trained, and its champion is not the first
C17_Witness ==
    \E f \in Families :
        /\ Len(artifacts[f]) = 3
        /\ ArtifactVersions(f) = {1, 2, 3}
        /\ champion[f] # <<>>
        /\ champion[f][1].version > 1

----------------------------------------------------------------------------
(* Drift detection: orchestration/drift_check.py *)

\* np.percentile(expected, 0, 10, ..., 100) of the three baseline quantiles, with
\* linear interpolation.  The quantiles are in tenths, the edges in fiftieths.
PsiEdges(expected) ==
    [k \in 1..11 |->
        IF k <= 6
        THEN 5 * expected[1] + (k - 1) * (expected[2] - expected[1])
        ELSE 5 * expected[2] + (k - 6) * (expected[3] - expected[2])]

\* np.histogram(values, edges)[0]: bin i is [edges[i], edges[i+1]), the last bin
\* also holds its right edge; values outside the edges are not counted
Histogram(values, edges) ==
    [i \in 1..10 |->
        Cardinality({j \in DOMAIN values :
            /\ edges[i] <= values[j]
            /\ IF i = 10 THEN values[j] <= edges[11] ELSE values[j] < edges[i + 1]})]

\* (a_pct - e_pct) * log((a_pct + eps) / (e_pct + eps)) with eps = 1e-6, in
\* ten-thousandths, for a_pct = a_cnt / 2 (two customers) and e_pct = e_cnt / 3
PsiTerm(a_cnt, e_cnt) ==
    <<<<0, 42390, 89400, 138155>>,
      <<65612, 676, 479, 3466>>,
      <<138155, 7324, 1352, 0>>>>[a_cnt + 1][e_cnt + 1]

psi(expected, actual) ==
    LET edges == PsiEdges(expected)
        e_cnt == Histogram([k \in 1..3 |-> 5 * expected[k]], edges)
        a_cnt == Histogram([k \in DOMAIN actual |-> 50 * actual[k]], edges)
    IN  SumSeq([i \in 1..10 |-> PsiTerm(a_cnt[i], e_cnt[i])])

\* score >= 0.25, in ten-thousandths
psi_severe == 2500

\* drift >= 0.3, in percent
tvd_severe == 30

\* the category values a categorical column can hold
Categories == <<"a", "b", "c">>

\* df[col].value_counts(normalize=True).to_dict(), in percent: the categories
\* that occur, each with its share of the two rows
value_counts(df, col) ==
    LET column == Column(df, col)
        present == {column[k] : k \in DOMAIN column}
    IN  [v \in present |->
            50 * Cardinality({k \in DOMAIN column : column[k] = v})]

\* d.get(k, 0)
Get(d, k) == IF k \in DOMAIN d THEN d[k] ELSE 0

\* sum(abs(curr.get(k, 0) - base.get(k, 0)) for k in set(base) | set(curr))
TotalVariation(base, curr) ==
    SumSeq([i \in DOMAIN Categories |->
               IF Categories[i] \in DOMAIN base \cup DOMAIN curr
               THEN Abs(Get(curr, Categories[i]) - Get(base, Categories[i]))
               ELSE 0])

\* detect_drift with both comparisons strict
detect_driftStrict(df, baseline, numeric_cols, categorical_cols) ==
    LET numeric == [col \in numeric_cols |->
                       psi(baseline.numeric[col], Column(df, col))]
        categorical == [col \in categorical_cols |->
                           TotalVariation(baseline.categorical[col],
                                          value_counts(df, col))]
    IN  [numeric |-> numeric,
         categorical |-> categorical,
         severe |-> \/ \E col \in numeric_cols : numeric[col] > psi_severe
                    \/ \E col \in categorical_cols : categorical[col] > tvd_severe]

detect_drift(df, baseline, numeric_cols, categorical_cols) ==
    LET numeric == [col \in numeric_cols |->
                       psi(baseline.numeric[col], Column(df, col))]
        categorical == [col \in categorical_cols |->
                           TotalVariation(baseline.categorical[col],
                                          value_counts(df, col))]
    IN  [numeric |-> numeric,
         categorical |-> categorical,
         severe |-> \/ \E col \in numeric_cols : numeric[col] >= psi_severe
                    \/ \E col \in categorical_cols : categorical[col] >= tvd_severe]

\* run_drift_check: <<>> when the check is skipped, else <<report>>; main passes
\* no categorical column, and the feature tables have no object column
run_drift_check(model_name) ==
    IF features[model_name] = <<>> \/ baseline_stats[model_name] = <<>>
    THEN <<>>
    ELSE <<detect_drift(features[model_name][1],
                        [numeric |-> baseline_stats[model_name][1], categorical |-> <<>>],
                        NumericCols, {})>>

\* detect_drift applied to a table of two rows with a numeric and a categorical
\* column, against baselines that put the total variation distance at 0.28,
\* 0.30, 0.32 and further off
DriftTables ==
    [Customers -> [total_spend : {5, 7}, channel : {"a", "b"}]]

DriftBaselines ==
    [numeric : [{"total_spend"} -> {<<50, 50, 50>>, <<70, 70, 70>>, <<50, 60, 70>>}],
     categorical : [{"channel"} ->
                       {[v \in {"a", "b"} |-> IF v = "a" THEN share ELSE 100 - share] :
                            share \in {34, 35, 36, 50}}
                       \cup {[v \in {"a"} |-> 100], [v \in {"c"} |-> 100]}]]

DriftInputs ==
    [fn : {"detect_drift"}, df : DriftTables, baseline : DriftBaselines,
     numeric_cols : {{}, {"total_spend"}}, categorical_cols : {{}, {"channel"}}]

DetectDrift ==
    /\ p_in.fn = "detect_drift"
    /\ p_out = <<>>
    /\ p_out' = <<detect_drift(p_in.df, p_in.baseline, p_in.numeric_cols,
                               p_in.categorical_cols)>>
    /\ UNCHANGED <<now, ks_vars, p_in, call_vars, service_vars, data_vars, registry_vars, pipe_vars>>

InitDrift ==
    /\ now = 0
    /\ kill_switches = <<>>
    /\ activation_history = <<>>
    /\ p_in \in DriftInputs
    /\ p_out = <<>>
    /\ raw_dir = RawDir(<<>>)
    /\ EmptyRegistry
    /\ PipelineIdle
    /\ NoChampionCall
    /\ ServicesIdle

NextDrift == DetectDrift

SpecDrift == InitDrift /\ [][NextDrift]_vars

\* C20: the report of detect_drift has severe = True exactly when the PSI score
\* it reports for a numeric column is at least 0.25 or the total variation
\* distance it reports for a categorical column is at least 0.3; a score at the
\* threshold is severe, a score below it is not.
C20_SevereIffScoreAtThreshold ==
    p_out # <<>> =>
        LET report == p_out[1]
        IN  report.severe <=>
                \/ \E col \in DOMAIN report.numeric : report.numeric[col] >= 2500
                \/ \E col \in DOMAIN report.categorical : report.categorical[col] >= 30

\* a call whose only drift is a total variation distance of exactly 0.30 (the
\* baseline has 35% "a", the table 50%) has reported severe
C20_Witness ==
    /\ p_out # <<>>
    /\ p_in.numeric_cols = {}
    /\ p_in.categorical_cols = {"channel"}
    /\ p_out[1].categorical["channel"] = 30
    /\ p_out[1].severe

\* a call with a total variation distance of 0.28 and a PSI below 0.25 has
\* reported no severe drift
C20_BelowThreshold ==
    /\ p_out # <<>>
    /\ p_in.numeric_cols = {"total_spend"}
    /\ p_in.categorical_cols = {"channel"}
    /\ p_out[1].categorical["channel"] = 28
    /\ p_out[1].numeric["total_spend"] < 2500
    /\ ~p_out[1].severe

\* drift["severe"] of what run_drift_check returns
SevereOf(report) == report # <<>> /\ report[1].severe

----------------------------------------------------------------------------
(* The orchestrator: orchestration/run_pipeline.py, batch_inference.py,
   snapshot/build_customer_snapshot.py.  The files written for monitoring only
   (feature report, saved predictions) are left out. *)

MaxRuns == 3
MaxFailedRuns == 1
MaxSwitchOps == 1

NoFlags == [f \in Families |-> FALSE]

\* a state file that json.loads rejects
Garbage ==
    [text |-> "garbage", raw_data_fingerprint |-> <<>>, feature_fingerprint |-> <<>>,
     last_run |-> 0, snapshot_date |-> <<>>, outputs_built |-> FALSE, drift |-> NoFlags]

load_state ==
    IF state_store = <<>> THEN EmptyState
    ELSE IF state_store[1].text # "json" THEN EmptyState
    ELSE [raw_data_fingerprint |-> state_store[1].raw_data_fingerprint,
          feature_fingerprint |-> state_store[1].feature_fingerprint]

\* the dict main hands to save_state
NewState ==
    [text |-> "json", raw_data_fingerprint |-> run.raw_fp,
     feature_fingerprint |-> run.feature_fp, last_run |-> now,
     snapshot_date |-> run.feature_fp, outputs_built |-> TRUE, drift |-> run.drift[1]]

save_state(state) == state_store' = <<state>>

Logged(r, step) == [r EXCEPT !.log = Append(@, step)]

\* the process ends: of its locals only what it printed remains
Exited(r) == [r EXCEPT !.preds = [f \in Families |-> <<>>]]

\* the exception is caught in main and the run goes on to save its state
RaiseCaught(r) ==
    /\ pc' = "save_state"
    /\ run' = r
    /\ failed_runs' = failed_runs + 1

\* an exception leaves main
Raise(r) ==
    /\ pc' = "failed"
    /\ run' = Exited(r)
    /\ failed_runs' = failed_runs + 1

\* a failure of the environment (a file that cannot be read or written, a
\* failing library call) is possible
CanFail == failed_runs < MaxFailedRuns

\* main, lines 100-111: load the state, fingerprint the raw directory, decide
Start ==
    /\ pc \in Idle
    /\ now < MaxRuns
    /\ now' = now + 1
    /\ LET state == load_state
           raw_fp == <<fingerprint_directory(raw_dir)>>
       IN  run' = [NoRun EXCEPT
                      !.run_id = now + 1,
                      !.content = state_store,
                      !.state = state,
                      !.raw_fp = raw_fp,
                      !.rebuild_features =
                          should_rebuild_features(state.raw_data_fingerprint, raw_fp)]
    /\ prev_run' = [status |-> pc, content |-> run.content, raw_fp |-> run.raw_fp,
                    rebuild_features |-> run.rebuild_features,
                    fp_changed |-> run.fp_changed,
                    retrain_models |-> run.retrain_models]
    /\ pc' = "features"
    /\ UNCHANGED <<ks_vars, promo_vars, call_vars, service_vars, data_vars, registry_vars, state_store,
                   last_success_features, drift_history, failed_runs, snapshots,
                   outputs>>

\* main, lines 113-122.  A rebuild raises when get_snapshot_date does, or when
\* ingestion or the build fails after k of the three tables were written.
FeaturesStep ==
    /\ pc = "features"
    /\ IF run.rebuild_features
       THEN \/ /\ \E k \in 0..2 :
                    /\ IF SnapshotRaises(raw_dir.orders) THEN k = 0 ELSE CanFail
                    /\ features' = FeaturesWritten(features, raw_dir, k)
               /\ Raise(Logged(run, "feature_build"))
            \/ /\ ~SnapshotRaises(raw_dir.orders)
               /\ features' = FeaturesWritten(features, raw_dir, 3)
               /\ run' = [Logged(run, "feature_build") EXCEPT
                             !.feature_fp = <<get_snapshot_date(raw_dir.orders)>>]
               /\ pc' = "drift"
               /\ UNCHANGED failed_runs
       ELSE /\ run' = [Logged(run, "feature_skip") EXCEPT
                          !.feature_fp = run.state.feature_fingerprint]
            /\ pc' = "drift"
            /\ UNCHANGED <<features, failed_runs>>
    /\ UNCHANGED <<now, ks_vars, promo_vars, call_vars, service_vars, raw_dir, registry_vars, state_store,
                   prev_run, last_success_features, drift_history, snapshots, outputs>>

\* main, lines 127-163: the three drift checks (each report is appended to the
\* family's history) and the retraining decision
DriftStep ==
    /\ pc = "drift"
    /\ LET reports == [f \in Families |-> run_drift_check(f)]
           flags == [f \in Families |-> SevereOf(reports[f])]
           drift_trigger == \E f \in Families : flags[f]
           fp_changed == should_retrain_models(run.state.feature_fingerprint,
                                               run.feature_fp)
           retrain_models == fp_changed \/ drift_trigger
       IN  /\ drift_history' =
                  [f \in Families |->
                      IF reports[f] = <<>> THEN drift_history[f]
                      ELSE Append(drift_history[f],
                                  [timestamp |-> now, severe |-> reports[f][1].severe,
                                   numeric |-> reports[f][1].numeric])]
           /\ run' = [Logged(Logged(run, "drift"),
                             IF retrain_models THEN "training" ELSE "training_skip")
                         EXCEPT !.drift = <<flags>>,
                                !.fp_changed = <<fp_changed>>,
                                !.retrain_models = <<retrain_models>>]
           /\ pc' = IF retrain_models THEN "train_churn" ELSE "churn_inference"
    /\ UNCHANGED <<now, ks_vars, promo_vars, call_vars, service_vars, data_vars, registry_vars, state_store,
                   prev_run, last_success_features, failed_runs, snapshots, outputs>>

\* what a step after the retraining decision leaves alone, besides its own files
step_frame == <<now, ks_vars, promo_vars, call_vars, service_vars, data_vars, state_store, prev_run,
                last_success_features, drift_history>>

\* the metrics a training run inside the pipeline can end with
PipelineChurnMetrics == {m \in ChurnTrainMetrics : m.pr_auc = 500}
PipelineClvMetrics == {m \in ClvTrainMetrics : m.clv.rmse # 199}
PipelineSegMetrics == SegTrainMetrics

\* train_models(): the three trainers in sequence; a trainer raises (and the
\* run ends) when its feature table cannot be read
PipelineTrain(family, next_pc) ==
    /\ IF features[family] = <<>>
       THEN Raise(run) /\ UNCHANGED registry_vars
       ELSE /\ CASE family = "churn" -> \E m \in PipelineChurnMetrics : TrainChurnRun(m)
                 [] family = "clv" -> \E m \in PipelineClvMetrics : TrainClvRun(m)
                 [] OTHER -> \E m \in PipelineSegMetrics : TrainSegmentationRun(m)
            /\ pc' = next_pc
            /\ UNCHANGED <<run, failed_runs>>
    /\ UNCHANGED <<step_frame, snapshots, outputs>>

PipelineTrainChurn == pc = "train_churn" /\ PipelineTrain("churn", "train_clv")

PipelineTrainClv == pc = "train_clv" /\ PipelineTrain("clv", "train_segmentation")

PipelineTrainSegmentation ==
    pc = "train_segmentation" /\ PipelineTrain("segmentation", "churn_inference")

\* batch_inference.load_model: the champion's version, else the highest version
LoadModelRaises(family) == champion[family] = <<>> /\ artifacts[family] = <<>>

get_model_version(family) ==
    IF champion[family] # <<>> THEN champion[family][1].version
    ELSE Len(artifacts[family])

\* churn_inference / clv_inference / segmentation_inference: score the family's
\* feature table with the loaded model and return the predictions
Inference(family, next_pc) ==
    /\ IF LoadModelRaises(family) \/ features[family] = <<>>
       THEN Raise(run)
       ELSE /\ run' = [run EXCEPT !.preds[family] =
                          <<[model_version |-> get_model_version(family)]>>]
            /\ pc' = next_pc
            /\ UNCHANGED failed_runs
    /\ UNCHANGED <<step_frame, registry_vars, snapshots, outputs>>

ChurnInference == pc = "churn_inference" /\ Inference("churn", "clv_inference")

ClvInference == pc = "clv_inference" /\ Inference("clv", "segmentation_inference")

SegmentationInference ==
    pc = "segmentation_inference" /\ Inference("segmentation", "snapshot")

\* load_previous_snapshot: the last directory in name order
DateKey(d) == IF d = <<>> THEN 0 ELSE d[1]

load_previous_snapshot ==
    IF snapshots = {} THEN <<>>
    ELSE <<CHOOSE p \in snapshots :
              \A q \in snapshots : DateKey(q.snapshot_date) <= DateKey(p.snapshot_date)>>

\* main, lines 177-198, with the snapshot built only in a run that has trained
SnapshotStepOnlyAfterTraining ==
    /\ pc = "snapshot"
    /\ LET snapshot ==
               [snapshot_date |-> run.feature_fp,
                feature_version |-> run.feature_fp,
                model_version |-> [f \in Families |-> get_model_version(f)],
                pipeline_run_id |-> run.run_id,
                predictions |-> [f \in Families |-> run.preds[f][1].model_version],
                prev_snapshot_used |-> load_previous_snapshot # <<>>]
       IN  snapshots' =
               IF "training" \in {run.log[k] : k \in DOMAIN run.log}
               THEN {p \in snapshots : p.snapshot_date # run.feature_fp} \cup {snapshot}
               ELSE snapshots
    /\ run' = Logged(run, "snapshot")
    /\ pc' = "outputs"
    /\ UNCHANGED <<step_frame, registry_vars, failed_runs, outputs>>

\* main, lines 177-198: build_customer_snapshot writes
\* snapshot_date=<snapshot_date>/customer_snapshot.parquet, replacing a file of
\* the same date
SnapshotStep ==
    /\ pc = "snapshot"
    /\ LET prev_snapshot == load_previous_snapshot
           snapshot ==
               [snapshot_date |-> run.feature_fp,
                feature_version |-> run.feature_fp,
                model_version |-> [f \in Families |-> get_model_version(f)],
                pipeline_run_id |-> run.run_id,
                predictions |-> [f \in Families |-> run.preds[f][1].model_version],
                prev_snapshot_used |-> prev_snapshot # <<>>]
       IN  snapshots' =
               {p \in snapshots : p.snapshot_date # run.feature_fp} \cup {snapshot}
    /\ run' = Logged(run, "snapshot")
    /\ pc' = "outputs"
    /\ UNCHANGED <<step_frame, registry_vars, failed_runs, outputs>>

\* main, lines 203-208: build_outputs
OutputsStep ==
    /\ pc = "outputs"
    /\ outputs' = <<[snapshot_date |-> run.feature_fp, pipeline_run_id |-> run.run_id]>>
    /\ run' = Logged(run, "outputs")
    /\ pc' = "save_state"
    /\ UNCHANGED <<step_frame, registry_vars, failed_runs, snapshots>>

\* main, lines 213-228
SaveState ==
    /\ pc = "save_state"
    /\ save_state(NewState)
    /\ last_success_features' = features
    /\ run' = Exited(Logged(run, "state_saved"))
    /\ pc' = "done"
    /\ UNCHANGED <<now, ks_vars, promo_vars, call_vars, service_vars, data_vars, registry_vars, prev_run,
                   drift_history, failed_runs, snapshots, outputs>>

\* the steps whose calls can raise for reasons outside the model
Raising == {"drift", "train_churn", "train_clv", "train_segmentation",
            "churn_inference", "clv_inference", "segmentation_inference",
            "snapshot", "outputs"}

StepRaises ==
    /\ pc \in Raising
    /\ CanFail
    /\ Raise(run)
    /\ UNCHANGED <<step_frame, registry_vars, snapshots, outputs>>

\* the raw files the first run finds
InitialRaw == RawDir(<<<<1, 0, 5>>, <<2, 0, 5>>, <<1, 40, 1>>>>)

\* new raw files replace the initial ones between two runs
DeliverRaw ==
    /\ pc \in Idle
    /\ now < MaxRuns
    /\ raw_dir = InitialRaw
    /\ \E d \in RawDirs \ {InitialRaw} : raw_dir' = d
    /\ UNCHANGED <<now, ks_vars, promo_vars, call_vars, service_vars, features, registry_vars, pipe_vars>>

\* the state file is damaged between two runs
CorruptStateFile ==
    /\ pc \in Idle
    /\ now < MaxRuns
    /\ state_store # <<>>
    /\ state_store[1].text = "json"
    /\ state_store' = <<Garbage>>
    /\ UNCHANGED <<now, ks_vars, promo_vars, call_vars, service_vars, data_vars, registry_vars, pc, run, prev_run,
                   last_success_features, drift_history, failed_runs, snapshots,
                   outputs>>

\* an operator blocks a model family between two runs
OperatorActivates ==
    /\ pc \in Idle
    /\ now < MaxRuns
    /\ Len(activation_history) < MaxSwitchOps
    /\ \E target \in Targets : activate_kill_switch("model_type", target)

Init ==
    /\ now = 0
    /\ kill_switches = <<>>
    /\ activation_history = <<>>
    /\ p_in = NoCall
    /\ p_out = <<>>
    /\ raw_dir = InitialRaw
    /\ EmptyRegistry
    /\ PipelineIdle
    /\ NoChampionCall
    /\ ServicesIdle

Next ==
    \/ Start
    \/ FeaturesStep
    \/ DriftStep
    \/ PipelineTrainChurn
    \/ PipelineTrainClv
    \/ PipelineTrainSegmentation
    \/ ChurnInference
    \/ ClvInference
    \/ SegmentationInference
    \/ SnapshotStep
    \/ OutputsStep
    \/ SaveState
    \/ StepRaises
    \/ DeliverRaw
    \/ CorruptStateFile

Spec == Init /\ [][Next]_vars

\* the pipeline on unchanging raw files, with an operator at the kill switches
NextOps ==
    \/ Start
    \/ FeaturesStep
    \/ DriftStep
    \/ PipelineTrainChurn
    \/ PipelineTrainClv
    \/ PipelineTrainSegmentation
    \/ ChurnInference
    \/ ClvInference
    \/ SegmentationInference
    \/ SnapshotStep
    \/ OutputsStep
    \/ SaveState
    \/ StepRaises
    \/ OperatorActivates

SpecOps == Init /\ [][NextOps]_vars

----------------------------------------------------------------------------
(* build_customer_snapshot on the columns of its inputs:
   snapshot/build_customer_snapshot.py, snapshot/schema.py and the helpers
   health.py, investment.py, rules.py, trends.py, segment_mapping.py.
   A table is the set of its column names; a step that reads a column the table
   lacks raises KeyError. *)

REQUIRED_COLUMNS ==
    {"customer_id", "snapshot_date",
     "churn_probability", "clv_12m", "segment_id", "segment_name", "segment_confidence",
     "recency_days", "order_frequency_30d", "order_frequency_90d",
     "session_frequency_30d", "session_frequency_90d", "total_orders", "total_spend",
     "spend_30d", "spend_90d", "avg_order_value", "return_rate",
     "is_active_30d", "is_active_90d", "days_since_last_session", "days_since_last_order",
     "health_score", "health_band", "investment_priority",
     "high_churn_risk_flag", "high_value_flag", "at_risk_high_value_flag",
     "new_customer_flag", "loyal_customer_flag",
     "churn_probability_delta_7d", "churn_probability_delta_30d", "clv_delta_30d",
     "health_score_delta_30d",
     "data_completeness_score", "feature_version", "model_version", "pipeline_run_id"}

\* the columns of the segmentation feature table that build_customer_snapshot reads
SnapshotFeatureColumns ==
    {"customer_id", "order_count", "total_spend", "avg_order_value", "spend_30d",
     "spend_90d", "orders_30d", "orders_90d", "sessions_30d", "sessions_90d",
     "return_count", "recency_days", "tenure_days"}

MetadataKeys == {"snapshot_date", "feature_version", "model_version", "pipeline_run_id"}

\* the steps of build_customer_snapshot, in the order of the code
SnapshotStepsPersistEarly ==
    <<"start", "merge", "ml_outputs", "behavioral", "engagement", "persist", "health",
      "investment", "flags", "trends", "metadata", "validate">>

SnapshotSteps ==
    <<"start", "merge", "ml_outputs", "behavioral", "engagement", "health",
      "investment", "flags", "trends", "metadata", "validate", "persist">>

\* what a step reads of the table built so far (KeyError when it is not there)
StepReads(step, inputs) ==
    CASE step = "ml_outputs" -> {"churn_score", "clv_90d", "segment"}
      [] step = "behavioral" ->
             {"order_count", "total_spend", "avg_order_value", "spend_30d", "spend_90d",
              "orders_30d", "orders_90d", "sessions_30d", "sessions_90d", "return_count"}
      [] step = "engagement" -> {"recency_days"}
      [] step = "health" -> {"churn_probability", "total_spend", "orders_90d", "sessions_90d"}
      [] step = "investment" -> {"clv_12m", "churn_probability"}
      [] step = "flags" -> {"churn_probability", "clv_12m", "tenure_days", "health_band"}
      [] step = "trends" ->
             IF inputs.prev_snapshot = <<>> THEN {}
             ELSE {"customer_id", "churn_probability", "clv_12m", "health_score"}
      [] step = "validate" -> REQUIRED_COLUMNS
      [] OTHER -> {}

\* the columns a step adds to the table
StepAdds(step, inputs) ==
    CASE step = "merge" ->
             inputs.churn_preds \cup inputs.clv_preds \cup inputs.segmentation_preds
                 \cup {"snapshot_date"}
      [] step = "ml_outputs" ->
             {"churn_probability", "clv_12m", "segment_id", "segment_name",
              "segment_confidence"}
      [] step = "behavioral" ->
             {"total_orders", "order_frequency_30d", "order_frequency_90d",
              "session_frequency_30d", "session_frequency_90d", "return_rate"}
      [] step = "engagement" ->
             {"is_active_30d", "is_active_90d", "days_since_last_order",
              "days_since_last_session"}
      [] step = "health" -> {"health_score", "health_band"}
      [] step = "investment" -> {"investment_priority"}
      [] step = "flags" ->
             {"high_churn_risk_flag", "high_value_flag", "at_risk_high_value_flag",
              "new_customer_flag", "loyal_customer_flag"}
      [] step = "trends" ->
             {"churn_probability_delta_7d", "churn_probability_delta_30d",
              "clv_delta_30d", "health_score_delta_30d"}
      [] step = "metadata" ->
             {"feature_version", "model_version", "pipeline_run_id",
              "data_completeness_score"}
      [] OTHER -> {}

\* a step raises: a key of metadata, a merge key or a column is missing
StepRaisesError(step, inputs, columns) ==
    CASE step = "start" -> "snapshot_date" \notin inputs.metadata
      [] step = "merge" ->
             \E t \in {inputs.features, inputs.churn_preds, inputs.clv_preds,
                        inputs.segmentation_preds} : "customer_id" \notin t
      [] step = "trends" ->
             /\ inputs.prev_snapshot # <<>>
             /\ \/ ~(StepReads(step, inputs) \subseteq columns)
                \/ ~(StepReads(step, inputs) \subseteq inputs.prev_snapshot[1])
      [] step = "metadata" -> ~(MetadataKeys \subseteq inputs.metadata)
      [] OTHER -> ~(StepReads(step, inputs) \subseteq columns)

\* the run of the steps from step k on; st.raised is the step that raised,
\* st.written the table written to snapshot_date=<date>/customer_snapshot.parquet
RECURSIVE RunSnapshotSteps(_, _, _, _)
RunSnapshotSteps(steps, k, inputs, st) ==
    IF k > Len(steps) THEN st
    ELSE IF StepRaisesError(steps[k], inputs, st.columns)
    THEN [st EXCEPT !.raised = <<steps[k]>>]
    ELSE RunSnapshotSteps(steps, k + 1, inputs,
             IF steps[k] = "persist"
             THEN [st EXCEPT !.written = <<st.columns>>]
             ELSE [st EXCEPT !.columns = @ \cup StepAdds(steps[k], inputs)])

build_customer_snapshot(inputs) ==
    RunSnapshotSteps(SnapshotSteps, 1, inputs,
                     [columns |-> inputs.features, raised |-> <<>>, written |-> <<>>])

\* a table with all columns, and the same table with one column dropped
DropOne(columns) == {columns} \cup {columns \ {c} : c \in columns}

SnapshotInputs ==
    [fn : {"build_customer_snapshot"},
     features : DropOne(SnapshotFeatureColumns),
     churn_preds : DropOne({"customer_id", "churn_score"}),
     clv_preds : {{"customer_id", "clv_90d"}, {"customer_id"}},
     segmentation_preds : {{"customer_id", "segment"}, {"customer_id"}},
     prev_snapshot : {<<>>, <<REQUIRED_COLUMNS>>, <<REQUIRED_COLUMNS \ {"health_score"}>>},
     metadata : {MetadataKeys, MetadataKeys \ {"pipeline_run_id"}}]

\* one call of build_customer_snapshot
BuildCustomerSnapshot ==
    /\ p_in.fn = "build_customer_snapshot"
    /\ p_out = <<>>
    /\ LET result == build_customer_snapshot(p_in)
       IN  /\ p_out' = <<result>>
           /\ snapshots' =
                  IF result.written = <<>> THEN snapshots
                  ELSE snapshots \cup {[snapshot_date |-> <<now>>,
                                        columns |-> result.written[1]]}
    /\ UNCHANGED <<now, ks_vars, p_in, call_vars, service_vars, data_vars, registry_vars, state_store,
                   pc, run, prev_run, last_success_features, drift_history, failed_runs,
                   outputs>>

InitSnapshot ==
    /\ now = 0
    /\ kill_switches = <<>>
    /\ activation_history = <<>>
    /\ p_in \in SnapshotInputs
    /\ p_out = <<>>
    /\ raw_dir = RawDir(<<>>)
    /\ EmptyRegistry
    /\ PipelineIdle
    /\ NoChampionCall
    /\ ServicesIdle

NextSnapshot == BuildCustomerSnapshot

SpecSnapshot == InitSnapshot /\ [][NextSnapshot]_vars

\* C15: build_customer_snapshot writes a snapshot file only of a table that has
\* every column of REQUIRED_COLUMNS; a call in which a step raises (a missing
\* input column, a missing metadata key, the schema validation) has created no
\* file.
C15_NoFileUnlessSchemaValid ==
    /\ \A p \in snapshots : REQUIRED_COLUMNS \subseteq p.columns
    /\ p_out # <<>> =>
           /\ p_out[1].raised # <<>> => snapshots = {}
           /\ p_out[1].raised = <<>> => snapshots # {}

\* a call whose table lacked a column read after the engagement fields (the
\* flags read tenure_days) has raised
C15_Witness ==
    /\ p_out # <<>>
    /\ p_out[1].raised = <<"flags">>
    /\ "health_band" \in p_out[1].columns

----------------------------------------------------------------------------
(* Pipeline run claims *)

LogOf(r) == {r.log[k] : k \in DOMAIN r.log}

\* a parseable state file exists (written by the last successful run)
HasStoredState == state_store # <<>> /\ state_store[1].text = "json"

\* the step of a run that writes the state file
WritesState == pc \notin Idle /\ state_store' # state_store

\* a run ends with an exception
RunFails == pc \notin Idle /\ pc' = "failed"

\* the run at hand follows a failed run, on the same raw files and the same
\* state file content
Retried ==
    /\ prev_run.status = "failed"
    /\ pc \notin {"idle", "features"}
    /\ prev_run.raw_fp = run.raw_fp
    /\ prev_run.content = run.content

StateWrittenLast ==
    [][WritesState =>
          /\ pc = "save_state" /\ pc' = "done"
          /\ {"drift", "snapshot", "outputs"} \subseteq LogOf(run)
          /\ \E step \in {"feature_build", "feature_skip"} : step \in LogOf(run)
          /\ \E step \in {"training", "training_skip"} : step \in LogOf(run)]_vars

FailureKeepsState == [][RunFails => state_store' = run.content]_vars

\* C1: the state store is written only as the last step of a run whose earlier
\* steps all succeeded; a run that raises leaves the state file with the content
\* it had when the run started; and the run after a failed run (same raw files,
\* same state file) takes the same rebuild decision and the same retraining
\* decision as the failed run did.
C1_FailedRunRetriesSameDecisions ==
    /\ StateWrittenLast
    /\ FailureKeepsState
    /\ [](Retried =>
            /\ run.rebuild_features = prev_run.rebuild_features
            /\ (prev_run.retrain_models # <<>> /\ run.retrain_models # <<>>
                   => run.retrain_models = prev_run.retrain_models))

\* what the code guarantees: of the retraining decision only the fingerprint
\* comparison is repeated by the retry; the drift flags are computed against the
\* baselines in the model registry, which the failed run may already have
\* rewritten.
C1_FailedRunRetriesRebuildAndFingerprint ==
    /\ StateWrittenLast
    /\ FailureKeepsState
    /\ [](Retried =>
            /\ run.rebuild_features = prev_run.rebuild_features
            /\ (prev_run.fp_changed # <<>> /\ run.fp_changed # <<>>
                   => run.fp_changed = prev_run.fp_changed))

\* a run failed after it had trained on a stored state, and its retry has decided
C1_Witness ==
    /\ Retried
    /\ run.content # <<>>
    /\ prev_run.retrain_models = <<TRUE>>
    /\ run.retrain_models # <<>>

\* C2: a run retrains exactly when the content of the feature tables differs
\* from their content at the last successful run (or no stored state exists), or
\* one of the three drift checks of the run reported severe.
C2_RetrainIffFeaturesChangedOrSevereDrift ==
    [][pc = "drift" /\ pc' # "failed" /\ pc' # "drift" =>
          LET severe == \E f \in Families : run'.drift[1][f]
              changed == ~HasStoredState \/ features # last_success_features
          IN  (pc' = "train_churn") <=> (changed \/ severe)]_vars

\* what the code decides on: the snapshot date of the feature build
C2_RetrainIffSnapshotDateChangedOrSevereDrift ==
    [][pc = "drift" /\ pc' # "failed" /\ pc' # "drift" =>
          LET severe == \E f \in Families : run'.drift[1][f]
              changed == \/ ~HasStoredState
                         \/ state_store[1].feature_fingerprint # run.feature_fp
          IN  (pc' = "train_churn") <=> (changed \/ severe)]_vars

\* C3: a run skips ingestion and feature build exactly when a state file that
\* parses exists and the raw_data_fingerprint in it equals the fingerprint of the
\* raw directory; a skipped build leaves the feature tables alone, and a
\* completed build leaves the tables of the raw files.
C3_SkipIffRawFingerprintStored ==
    [][pc = "features" /\ pc' # "features" =>
          LET skipped == Last(run'.log) = "feature_skip"
              unchanged ==
                  /\ HasStoredState
                  /\ state_store[1].raw_data_fingerprint =
                         <<fingerprint_directory(raw_dir)>>
          IN  /\ skipped <=> unchanged
              /\ skipped => features' = features /\ pc' = "drift"
              /\ ~skipped /\ pc' = "drift" =>
                     features' = FeaturesWritten(features, raw_dir, 3)]_vars

\* a second run has skipped the build on unchanged raw files
C3_Witness ==
    /\ now = 2
    /\ pc = "drift"
    /\ run.log = <<"feature_skip">>
    /\ HasStoredState

\* C9: while an active kill switch blocks the model type of a family that has a
\* champion, batch inference hands no predictions of that family to the run
\* (which would pass them on to the snapshot).
C9_BlockedFamilyNotDelivered ==
    [][\A f \in Targets :
          /\ is_blocked("model_type", f)
          /\ champion[f] # <<>>
          /\ run.preds[f] = <<>>
          => run'.preds[f] = <<>>]_vars

\* the snapshot the run at hand has written
SnapshotOfRun ==
    {p \in snapshots : p.pipeline_run_id = run.run_id}

\* the run found the raw fingerprint of its state file unchanged and no drift
\* check of it reported severe
UnchangedAndNoDrift ==
    /\ run.content # <<>>
    /\ run.content[1].text = "json"
    /\ run.content[1].raw_data_fingerprint = run.raw_fp
    /\ run.drift = <<NoFlags>>

\* C13: a run that reaches the snapshot step has the predictions of all three
\* families at hand; a run that gets past the snapshot step has written a
\* snapshot holding them, whether or not the feature build and the training were
\* skipped; and a run on unchanged raw files without severe drift skips both, and
\* when it completes it has built its snapshot all the same.
C13_InferenceAndSnapshotEveryRun ==
    /\ [](pc = "snapshot" => \A f \in Families : run.preds[f] # <<>>)
    /\ [](pc \in {"outputs", "save_state", "done"} =>
            /\ "snapshot" \in LogOf(run)
            /\ SnapshotOfRun # {}
            /\ \A p \in SnapshotOfRun, f \in Families :
                   p.predictions[f] = get_model_version(f))
    /\ [](UnchangedAndNoDrift =>
            {"feature_skip", "training_skip"} \subseteq LogOf(run))

\* a second run on unchanged raw files has skipped the build and the training and
\* completed with a snapshot of its own
C13_Witness ==
    /\ pc = "done"
    /\ run.run_id >= 2
    /\ UnchangedAndNoDrift
    /\ {"feature_skip", "training_skip", "snapshot"} \subseteq LogOf(run)
    /\ SnapshotOfRun # {}

\* the stage that may follow each stage of a run
NextStages(stage) ==
    CASE stage \in Idle -> {"features"}
      [] stage = "features" -> {"drift"}
      [] stage = "drift" -> {"train_churn", "churn_inference"}
      [] stage = "train_churn" -> {"train_clv"}
      [] stage = "train_clv" -> {"train_segmentation"}
      [] stage = "train_segmentation" -> {"churn_inference"}
      [] stage = "churn_inference" -> {"clv_inference"}
      [] stage = "clv_inference" -> {"segmentation_inference"}
      [] stage = "segmentation_inference" -> {"snapshot"}
      [] stage = "snapshot" -> {"outputs"}
      [] stage = "outputs" -> {"save_state"}
      [] stage = "save_state" -> {"done"}

\* what a run prints, stage by stage, when nothing is skipped or fails
FullLog == <<"feature", "drift", "training", "snapshot", "outputs", "state_saved">>

\* "feature_build" and "feature_skip" are the same stage, as are "training" and
\* "training_skip"
StageOf(step) ==
    CASE step \in {"feature_build", "feature_skip"} -> "feature"
      [] step \in {"training", "training_skip"} -> "training"
      [] OTHER -> step

\* C14: a run moves from stage to stage only in the order features, drift
\* check, training (or skip), the three inferences, snapshot, outputs, state,
\* done; a stage that raises ends the run as failed, after which nothing happens
\* but the start of the next run; and a run is done only when its outputs were
\* built and its state was saved.
C14_StagesInOrder ==
    /\ [][pc' # pc =>
              \/ pc' \in NextStages(pc)
              \/ pc \notin Idle /\ pc # "save_state" /\ pc' = "failed"]_vars
    /\ [][pc = "failed" =>
              \/ pc' = "failed" /\ UNCHANGED <<features, registry_vars, snapshots, outputs,
                                                 drift_history, run>>
              \/ pc' = "features" /\ run'.run_id = run.run_id + 1]_vars
    /\ [](\A k \in DOMAIN run.log : k <= Len(FullLog) /\ StageOf(run.log[k]) = FullLog[k])
    /\ [][pc # "done" /\ pc' = "done" =>
              /\ Len(run'.log) = Len(FullLog)
              /\ outputs' # <<>> /\ outputs'[1].pipeline_run_id = run.run_id
              /\ HasStoredState' /\ state_store'[1].last_run = run.run_id]_vars

\* a run that had decided to train has failed in a later stage, and the run
\* after it has gone through all stages
C14_Witness ==
    /\ prev_run.status = "failed"
    /\ prev_run.retrain_models = <<TRUE>>
    /\ pc = "done"
    /\ run.run_id >= 2

\* C16: the snapshot step of a run adds one snapshot to the snapshot directory
\* and leaves every snapshot of an earlier run in place, unchanged.
C16_SnapshotsAppendOnly ==
    [][pc = "snapshot" /\ pc' = "outputs" =>
          /\ snapshots \subseteq snapshots'
          /\ Cardinality(snapshots') = Cardinality(snapshots) + 1]_vars

----------------------------------------------------------------------------
(* save_drift_report: the point-in-time report files and history.json of one
   model family.  The calls follow one another. *)

MaxReports == 3

\* the reports detect_drift hands over
DriftReports == [severe : BOOLEAN]

\* no file in monitoring/drift/<model>/ yet; calls is a history variable: what
\* each call of save_drift_report wrote, in call order
EmptyDriftDir == [files |-> <<>>, history |-> <<>>, calls |-> <<>>]

\* drift_dir / f"drift_{ts.replace(':', '-')}.json": the path is the timestamp,
\* ':' replaced one to one
report_path(ts) == ts

\* report_path.open("w") and json.dump(report): creates the file or replaces
\* what it held
WriteFile(files, path, content) ==
    [q \in DOMAIN files \cup {path} |-> IF q = path THEN content ELSE files[q]]

\* save_drift_report(model, report, project_root) with the clock reading ts
save_drift_report(dir, report, ts) ==
    LET stamped == [severe |-> report.severe, timestamp |-> ts]
    IN  [files |-> WriteFile(dir.files, report_path(ts), stamped),
         history |-> Append(dir.history, stamped),
         calls |-> Append(dir.calls, stamped)]

\* one call; datetime.now(timezone.utc) reads the wall clock, whose value is
\* the same for two calls that fall into one step of the clock
SaveDriftReport ==
    /\ Len(drift_dir.calls) < MaxReports
    /\ \E report \in DriftReports :
          drift_dir' = save_drift_report(drift_dir, report, now)
    /\ UNCHANGED <<now, ks_vars, promo_vars, call_vars, data_vars, registry_vars,
                   pipe_vars, loader, rate_limiter, managers>>

InitReports ==
    /\ now = 0
    /\ kill_switches = <<>>
    /\ activation_history = <<>>
    /\ p_in = NoCall
    /\ p_out = <<>>
    /\ raw_dir = RawDir(<<>>)
    /\ EmptyRegistry
    /\ PipelineIdle
    /\ NoChampionCall
    /\ drift_dir = EmptyDriftDir
    /\ NoLoader /\ NoRateLimiter /\ NoManagers

NextReports == SaveDriftReport \/ Tick

SpecReports == InitReports /\ [][NextReports]_vars

\* C21: after any sequence of save_drift_report calls history.json holds one
\* entry per call in call order, and the report file each call wrote still
\* holds what that call wrote: no later call has written to the same path.
C21_HistoryAndReportFilesKept ==
    /\ drift_dir.history = drift_dir.calls
    /\ Cardinality(DOMAIN drift_dir.files) = Len(drift_dir.calls)
    /\ \A k \in DOMAIN drift_dir.calls :
          drift_dir.files[report_path(drift_dir.calls[k].timestamp)] = drift_dir.calls[k]

\* C21, the part about history.json alone: one entry per call, in call order,
\* and every step keeps the entries that were there.
C21_HistoryOneEntryPerCall ==
    [][/\ drift_dir'.history = drift_dir'.calls
       /\ drift_dir' # drift_dir =>
              \E entry \in [severe : BOOLEAN, timestamp : 0..(MaxTime + 1)] :
                  drift_dir'.history = Append(drift_dir.history, entry)]_vars

----------------------------------------------------------------------------
(* fingerprint_directory on directories of two files with arbitrary bytes *)

MaxFileLen == 2

\* the contents a file can have: up to MaxFileLen bytes, each 1 or 2
FileContents == UNION {[1..n -> {1, 2}] : n \in 0..MaxFileLen}

Directories == [{"customers", "orders"} -> FileContents]

FingerprintInputs ==
    [fn : {"fingerprint_directory"}, dir : Directories, enumerated : Enumerations]

FingerprintDirectory ==
    /\ p_in.fn = "fingerprint_directory"
    /\ p_out = <<>>
    /\ p_out' = <<fingerprint_enumerated(p_in.dir, p_in.enumerated)>>
    /\ UNCHANGED <<now, ks_vars, p_in, call_vars, service_vars, data_vars,
                   registry_vars, pipe_vars>>

InitFingerprint ==
    /\ now = 0
    /\ kill_switches = <<>>
    /\ activation_history = <<>>
    /\ p_in \in FingerprintInputs
    /\ p_out = <<>>
    /\ raw_dir = RawDir(<<>>)
    /\ EmptyRegistry
    /\ PipelineIdle
    /\ NoChampionCall
    /\ ServicesIdle

NextFingerprint == FingerprintDirectory

SpecFingerprint == InitFingerprint /\ [][NextFingerprint]_vars

\* C24: the fingerprint of a directory is the same for every order in which
\* the files are enumerated, and a directory in which the bytes of any file
\* differ has a different fingerprint.
C24_FingerprintOfContentsOnly ==
    p_out # <<>> =>
        \A other \in Directories, enumerated \in Enumerations :
            fingerprint_enumerated(other, enumerated) = p_out[1] <=> other = p_in.dir

\* C24, the part that holds: the same files give the same fingerprint whatever
\* the order in which glob enumerates them
C24_OrderIndependent ==
    p_out # <<>> =>
        \A enumerated \in Enumerations :
            fingerprint_enumerated(p_in.dir, enumerated) = p_out[1]

----------------------------------------------------------------------------
(* caching/loader.py: the DataLoader the API routes read through, next to a
   pipeline that persists dated snapshot and output directories.  A directory
   is named by its date d, "snapshot_date=<d>", or, for snapshots, by the date
   with the time suffix, "snapshot_date=<d>T00-00-00". *)

MaxSnapshotDate == 2

SnapshotDates == 1..MaxSnapshotDate

\* customer_snapshot.parquet of date d: one row per customer
SnapshotFile(d) == [c \in Customers |-> [customer_id |-> c, snapshot_date |-> d]]

\* pd.DataFrame(): no rows and no columns
EmptyFrame == <<>>

\* sorted(DIR.glob("snapshot_date=*"))[-1].name.split("=")[1], cut to its
\* first ten characters when cut is set: names sort by date, and the name
\* with the time suffix sorts after the plain name of the same date
LatestName(dirs, cut) ==
    LET last == CHOOSE p \in dirs :
                    \A q \in dirs :
                        \/ q.date < p.date
                        \/ q.date = p.date /\ (q.timed => p.timed)
    IN  IF cut THEN [date |-> last.date, timed |-> FALSE]
        ELSE [date |-> last.date, timed |-> last.timed]

OutputDirs == {[date |-> outputs[k].snapshot_date, timed |-> FALSE] : k \in DOMAIN outputs}

SnapshotDirs == {[date |-> p.snapshot_date, timed |-> p.timed] : p \in snapshots}

\* _refresh_latest_date: the new value of _latest_snapshot_date
refresh_latest_date(current) ==
    IF OutputDirs # {} THEN <<LatestName(OutputDirs, FALSE)>>
    ELSE IF SnapshotDirs # {} THEN <<LatestName(SnapshotDirs, TRUE)>>
    ELSE current

\* the latest_date property: refreshes only while nothing has been found
latest_date(current) == IF current = <<>> THEN refresh_latest_date(current) ELSE current

\* the body of get_customer_snapshot for the given latest_date
ReadSnapshot(latest) ==
    IF latest = <<>> THEN EmptyFrame
    ELSE IF \E timed \in BOOLEAN :
                /\ latest[1].timed => timed
                /\ [date |-> latest[1].date, timed |-> timed] \in SnapshotDirs
    THEN SnapshotFile(latest[1].date)
    ELSE EmptyFrame

\* get_customer_snapshot under lru_cache(maxsize=1): the first call's frame is
\* returned by every later call on the same DataLoader
get_customer_snapshot(ld) ==
    IF ld.cache # <<>>
    THEN [latest_snapshot_date |-> ld.latest_snapshot_date, cache |-> ld.cache,
          df |-> ld.cache[1]]
    ELSE LET latest == latest_date(ld.latest_snapshot_date)
             df == ReadSnapshot(latest)
         IN  [latest_snapshot_date |-> latest, cache |-> <<df>>, df |-> df]

\* get_customer_list with the default page: total and items, or the empty
\* result for an empty frame
get_customer_list(df) ==
    IF df = EmptyFrame THEN [returned |-> [total |-> 0, items |-> <<>>]]
    ELSE [returned |-> [total |-> Len(df), items |-> df]]

\* get_customer_details: df["customer_id"] raises KeyError on a frame without
\* columns; otherwise <<the record of the customer>>, or <<>> for None
get_customer_details(df, customer_id) ==
    IF df = EmptyFrame THEN [raised |-> "KeyError"]
    ELSE IF \E k \in DOMAIN df : df[k].customer_id = customer_id
    THEN [returned |-> <<df[CHOOSE k \in DOMAIN df : df[k].customer_id = customer_id]>>]
    ELSE [returned |-> <<>>]

\* routes/overview.py get_executive_overview without filters
get_executive_overview(df) ==
    IF df = EmptyFrame THEN [returned |-> [total_customers |-> 0, snapshot_date |-> <<>>]]
    ELSE [returned |-> [total_customers |-> Len(df), snapshot_date |-> <<df[1].snapshot_date>>]]

\* DataLoader(): _latest_snapshot_date = None, then _refresh_latest_date();
\* op, result and seen record the last read and the directories it found
NewLoader ==
    [latest_snapshot_date |-> refresh_latest_date(<<>>), cache |-> <<>>,
     op |-> "init", result |-> [returned |-> <<>>], seen |-> SnapshotDirs]

loader_frame == <<now, ks_vars, promo_vars, call_vars, data_vars, registry_vars,
                  state_store, pc, run, prev_run, last_success_features,
                  drift_history, failed_runs, drift_dir, rate_limiter, managers>>

\* a read through the loader: op is applied to what get_customer_snapshot returns
LoaderRead(op, customer_id) ==
    LET got == get_customer_snapshot(loader)
        result == CASE op = "get_customer_snapshot" -> [returned |-> got.df]
                    [] op = "get_customer_list" -> get_customer_list(got.df)
                    [] op = "get_customer_details" -> get_customer_details(got.df, customer_id)
                    [] OTHER -> get_executive_overview(got.df)
    IN  /\ loader' = [latest_snapshot_date |-> got.latest_snapshot_date,
                      cache |-> got.cache, op |-> op, result |-> result,
                      seen |-> SnapshotDirs]
        /\ UNCHANGED <<loader_frame, snapshots, outputs>>

GetCustomerSnapshot == LoaderRead("get_customer_snapshot", 1)

GetCustomerList == LoaderRead("get_customer_list", 1)

GetCustomerDetails == \E c \in Customers \cup {3} : LoaderRead("get_customer_details", c)

GetExecutiveOverview == LoaderRead("get_executive_overview", 1)

\* the API process starts again: the module-level loader = DataLoader()
ConstructLoader ==
    /\ loader' = NewLoader
    /\ UNCHANGED <<loader_frame, snapshots, outputs>>

\* a pipeline run persists the snapshot of a date later than every earlier one
PersistSnapshot ==
    /\ \E d \in SnapshotDates, timed \in BOOLEAN :
          /\ \A p \in snapshots : p.snapshot_date < d
          /\ snapshots' = snapshots \cup {[snapshot_date |-> d, timed |-> timed]}
    /\ UNCHANGED <<loader_frame, loader, outputs>>

\* and then the outputs of that date
PersistOutputs ==
    /\ \E p \in snapshots :
          /\ \A k \in DOMAIN outputs : outputs[k].snapshot_date < p.snapshot_date
          /\ outputs' = Append(outputs, [snapshot_date |-> p.snapshot_date])
    /\ UNCHANGED <<loader_frame, loader, snapshots>>

InitLoader ==
    /\ now = 0
    /\ kill_switches = <<>>
    /\ activation_history = <<>>
    /\ p_in = NoCall
    /\ p_out = <<>>
    /\ raw_dir = RawDir(<<>>)
    /\ EmptyRegistry
    /\ PipelineIdle
    /\ NoChampionCall
    /\ NoDriftDir /\ NoRateLimiter /\ NoManagers
    /\ loader = NewLoader

NextLoader ==
    \/ GetCustomerSnapshot
    \/ GetCustomerList
    \/ GetCustomerDetails
    \/ GetExecutiveOverview
    \/ ConstructLoader
    \/ PersistSnapshot
    \/ PersistOutputs

SpecLoader == InitLoader /\ [][NextLoader]_vars

\* the result of a read is the empty or zeroed one of its operation
EmptyResult(op, result) ==
    /\ DOMAIN result = {"returned"}
    /\ CASE op = "get_customer_snapshot" -> result.returned = EmptyFrame
         [] op = "get_customer_list" -> result.returned = [total |-> 0, items |-> <<>>]
         [] op = "get_customer_details" -> result.returned = <<>>
         [] OTHER -> result.returned = [total_customers |-> 0, snapshot_date |-> <<>>]

\* C25: a read made while no snapshot directory exists returns an empty or
\* zeroed result and does not raise.
C25_EmptyResultWithoutSnapshot ==
    (loader.op # "init" /\ loader.seen = {}) => EmptyResult(loader.op, loader.result)

\* C25 for the reads other than get_customer_details
C25_OtherReadsEmpty ==
    (loader.op \notin {"init", "get_customer_details"} /\ loader.seen = {})
        => EmptyResult(loader.op, loader.result)

\* C26: what get_customer_snapshot returns is the content of the latest
\* snapshot directory that exists when it is called.
C26_ReadsLatestSnapshot ==
    (loader.op = "get_customer_snapshot" /\ loader.seen # {}) =>
        loader.result =
            [returned |-> SnapshotFile(LatestName(loader.seen, TRUE).date)]

----------------------------------------------------------------------------
(* snapshot/health.py and snapshot/rules.py: the health band of a row and the
   business flags derived from it *)

\* health scores at the ends of every band, tenures on both sides of a year
HealthScores == {0, 39, 40, 59, 60, 79, 80, 100}

TenureDays == {30, 365}

\* np.select(conditions, choices, default="Critical") of compute_health_score
health_band(health_score) ==
    IF health_score >= 80 THEN "Excellent"
    ELSE IF health_score >= 60 THEN "Good"
    ELSE IF health_score >= 40 THEN "Watch"
    ELSE "Critical"

HealthBands == {health_band(score) : score \in HealthScores}

\* compute_health_score, lines 38-48: the band column, from the score column
compute_health_band(df) ==
    [k \in DOMAIN df |->
        [health_score |-> df[k].health_score, tenure_days |-> df[k].tenure_days,
         health_band |-> health_band(df[k].health_score)]]

\* apply_business_flags, lines 12-15
apply_business_flags(df) ==
    [k \in DOMAIN df |->
        [health_score |-> df[k].health_score, tenure_days |-> df[k].tenure_days,
         health_band |-> df[k].health_band,
         new_customer_flag |-> df[k].tenure_days <= 30,
         loyal_customer_flag |->
             df[k].tenure_days >= 365 /\ df[k].health_band = "high"]]

FlagTables == [1..4 -> [health_score : HealthScores, tenure_days : TenureDays]]

FlagInputs == [fn : {"apply_business_flags"}, df : FlagTables]

\* build_customer_snapshot, lines 106-112: the health step, then the flags
ApplyBusinessFlags ==
    /\ p_in.fn = "apply_business_flags"
    /\ p_out = <<>>
    /\ p_out' = <<apply_business_flags(compute_health_band(p_in.df))>>
    /\ UNCHANGED <<now, ks_vars, p_in, call_vars, service_vars, data_vars,
                   registry_vars, pipe_vars>>

InitFlags ==
    /\ now = 0
    /\ kill_switches = <<>>
    /\ activation_history = <<>>
    /\ p_in \in FlagInputs
    /\ p_out = <<>>
    /\ raw_dir = RawDir(<<>>)
    /\ EmptyRegistry
    /\ PipelineIdle
    /\ NoChampionCall
    /\ ServicesIdle

NextFlags == ApplyBusinessFlags

SpecFlags == InitFlags /\ [][NextFlags]_vars

\* the snapshot has a customer of at least a year's tenure in every health band
LongTenureInEveryBand(df) ==
    \A band \in HealthBands :
        \E k \in DOMAIN df : df[k].tenure_days >= 365 /\ df[k].health_band = band

\* C27: apply_business_flags can mark a customer as loyal: in a snapshot that
\* has a customer with tenure_days >= 365 in every health band that
\* compute_health_score assigns, loyal_customer_flag is True for at least one
\* of them.
C27_LoyalFlagCanBeTrue ==
    (p_out # <<>> /\ LongTenureInEveryBand(p_out[1])) =>
        \E k \in DOMAIN p_out[1] :
            p_out[1][k].tenure_days >= 365 /\ p_out[1][k].loyal_customer_flag

\* what the code does: the flag is False for every row of every snapshot; the
\* other tenure flag does take both values
C27_LoyalFlagNeverTrue ==
    p_out # <<>> =>
        \A k \in DOMAIN p_out[1] :
            /\ ~p_out[1][k].loyal_customer_flag
            /\ p_out[1][k].new_customer_flag <=> p_out[1][k].tenure_days <= 30

----------------------------------------------------------------------------
(* api/middleware/rate_limiter.py: RateLimiter.check_rate_limit.  The method
   has no await in its body, so one call is one step.  Time is the clock `now`
   in whole seconds; the limits are scaled down. *)

burst_size == 2
requests_per_minute == 3
requests_per_hour == 4

Clients == {"ip:1", "ip:2"}

\* RateLimiter.__init__: empty buckets, a full burst bucket for every client
\* (the defaultdict's value on first access), no last_refill entry; last is
\* a history variable: the client, time and outcome of the last call
NewRateLimiter ==
    [minute_buckets |-> [c \in Clients |-> <<>>],
     hour_buckets |-> [c \in Clients |-> <<>>],
     burst_buckets |-> [c \in Clients |-> burst_size],
     last_refill |-> [c \in Clients |-> <<>>],
     last |-> [client |-> "none", at |-> 0, allowed |-> TRUE]]

\* _clean_old_requests: [ts for ts in bucket if ts > time.time() - window_seconds]
clean_old_requests(bucket, window_seconds) ==
    SelectSeq(bucket, LAMBDA ts : ts > now - window_seconds)

\* _refill_burst_tokens: self.last_refill.get(client_id, now), int(elapsed),
\* and the two assignments under "if tokens_to_add > 0"
refill_burst_tokens(rl, client_id) ==
    LET last_refill == IF rl.last_refill[client_id] = <<>> THEN now
                       ELSE rl.last_refill[client_id][1]
        tokens_to_add == now - last_refill
    IN  IF tokens_to_add > 0
        THEN [rl EXCEPT !.burst_buckets[client_id] =
                            Min(burst_size, rl.burst_buckets[client_id] + tokens_to_add),
                        !.last_refill[client_id] = <<now>>]
        ELSE rl

\* check_rate_limit: the limiter after the call; last.allowed is "returns None"
check_rate_limit(rl, client_id) ==
    LET cleaned == [rl EXCEPT
                       !.minute_buckets[client_id] =
                           clean_old_requests(rl.minute_buckets[client_id], 60),
                       !.hour_buckets[client_id] =
                           clean_old_requests(rl.hour_buckets[client_id], 3600)]
        refilled == refill_burst_tokens(cleaned, client_id)
        limited == \/ refilled.burst_buckets[client_id] <= 0
                   \/ Len(refilled.minute_buckets[client_id]) >= requests_per_minute
                   \/ Len(refilled.hour_buckets[client_id]) >= requests_per_hour
    IN  IF limited
        THEN [refilled EXCEPT !.last = [client |-> client_id, at |-> now, allowed |-> FALSE]]
        ELSE [refilled EXCEPT
                 !.burst_buckets[client_id] = @ - 1,
                 !.minute_buckets[client_id] = Append(@, now),
                 !.hour_buckets[client_id] = Append(@, now),
                 !.last = [client |-> client_id, at |-> now, allowed |-> TRUE]]

\* a request of a client reaches the middleware
CheckRateLimit ==
    /\ \E client_id \in Clients :
          rate_limiter' = check_rate_limit(rate_limiter, client_id)
    /\ UNCHANGED <<now, ks_vars, promo_vars, call_vars, data_vars, registry_vars,
                   pipe_vars, drift_dir, loader, managers>>

InitLimiter ==
    /\ now = 0
    /\ kill_switches = <<>>
    /\ activation_history = <<>>
    /\ p_in = NoCall
    /\ p_out = <<>>
    /\ raw_dir = RawDir(<<>>)
    /\ EmptyRegistry
    /\ PipelineIdle
    /\ NoChampionCall
    /\ NoDriftDir /\ NoLoader /\ NoManagers
    /\ rate_limiter = NewRateLimiter

NextLimiter == CheckRateLimit \/ Tick

SpecLimiter == InitLimiter /\ [][NextLimiter]_vars

\* the step is a call of check_rate_limit by the client
Checks(client_id) ==
    /\ rate_limiter' # rate_limiter
    /\ rate_limiter'.last.client = client_id
    /\ rate_limiter'.last.at = now

\* C28: a client whose burst tokens are all consumed is allowed again by a
\* call made at least one second after its last allowed request, when fewer
\* than requests_per_minute and requests_per_hour of its requests are on record.
C28_AllowedAgainAfterOneSecond ==
    [][\A c \in Clients :
          (/\ Checks(c)
           /\ rate_limiter.burst_buckets[c] = 0
           /\ rate_limiter.minute_buckets[c] # <<>>
           /\ now >= Last(rate_limiter.minute_buckets[c]) + 1
           /\ Len(rate_limiter.minute_buckets[c]) < requests_per_minute
           /\ Len(rate_limiter.hour_buckets[c]) < requests_per_hour)
          => rate_limiter'.last.allowed]_vars

\* C28, the part that holds: the token count stays between 0 and burst_size
C28_TokensWithinBounds ==
    \A c \in Clients :
        /\ rate_limiter.burst_buckets[c] >= 0
        /\ rate_limiter.burst_buckets[c] <= burst_size

\* what the code does: no client ever gets a last_refill entry, so a bucket
\* never gains a token
C28_NeverRefilled ==
    [][\A c \in Clients :
          /\ rate_limiter'.last_refill[c] = <<>>
          /\ rate_limiter'.burst_buckets[c] <= rate_limiter.burst_buckets[c]]_vars

----------------------------------------------------------------------------
(* Two KillSwitchManager instances on one config file.  Each instance holds
   the config it loaded in __init__ and writes all of it back in _save. *)

MaxManagerOps == 2

Instances == {1, 2}

\* the config __init__ starts from when the file does not exist
EmptyConfig == [kill_switches |-> <<>>, activation_history |-> <<>>]

\* no config file, no instance constructed; activated is a history variable:
\* the ids activated through any instance and not deactivated since
ManagersClosed ==
    [file |-> <<>>, config |-> [i \in Instances |-> <<>>], activated |-> {}]

ConfigIds(config) ==
    {config.kill_switches[k].id : k \in DOMAIN config.kill_switches}

ConfigIndexOf(config, id) ==
    CHOOSE k \in DOMAIN config.kill_switches : config.kill_switches[k].id = id

\* activate_kill_switch on an instance's config: the record is stored under
\* its id and the activation is logged
ConfigActivated(config, scope, target) ==
    LET id == KillSwitchId(scope, target, now)
        ks == [id |-> id, scope |-> scope, target |-> target, status |-> "active"]
    IN  [kill_switches |->
             IF id \in ConfigIds(config)
             THEN [config.kill_switches EXCEPT ![ConfigIndexOf(config, id)] = ks]
             ELSE Append(config.kill_switches, ks),
         activation_history |->
             Append(config.activation_history,
                    [kill_switch_id |-> id, action |-> "activated"])]

\* deactivate_kill_switch returns True on this config
ConfigDeactivateOk(config, id) ==
    /\ id \in ConfigIds(config)
    /\ config.kill_switches[ConfigIndexOf(config, id)].status = "active"

ConfigDeactivated(config, id) ==
    [kill_switches |->
         [config.kill_switches EXCEPT ![ConfigIndexOf(config, id)].status = "deactivated"],
     activation_history |->
         Append(config.activation_history,
                [kill_switch_id |-> id, action |-> "deactivated"])]

manager_frame == <<now, ks_vars, promo_vars, call_vars, data_vars, registry_vars,
                   pipe_vars, drift_dir, loader, rate_limiter>>

\* KillSwitchManager(config_path): json.load of the file, or the empty config,
\* saved at once, when there is no file
OpenManager(i) ==
    /\ managers.config[i] = <<>>
    /\ managers' =
           IF managers.file # <<>>
           THEN [managers EXCEPT !.config[i] = managers.file]
           ELSE [managers EXCEPT !.config[i] = <<EmptyConfig>>, !.file = <<EmptyConfig>>]
    /\ UNCHANGED manager_frame

\* activate_kill_switch through instance i, with the _save at its end
ManagerActivates(i) ==
    /\ managers.config[i] # <<>>
    /\ Len(managers.config[i][1].activation_history) < MaxManagerOps
    /\ \E target \in Targets :
          LET config == ConfigActivated(managers.config[i][1], "model_type", target)
          IN  managers' =
                  [managers EXCEPT
                      !.config[i] = <<config>>,
                      !.file = <<config>>,
                      !.activated = @ \cup {KillSwitchId("model_type", target, now)}]
    /\ UNCHANGED manager_frame

\* deactivate_kill_switch through instance i: nothing changes and nothing is
\* saved when it returns False
ManagerDeactivates(i) ==
    /\ managers.config[i] # <<>>
    /\ Len(managers.config[i][1].activation_history) < MaxManagerOps
    /\ \E target \in Targets, t \in 0..MaxTime :
          LET id == KillSwitchId("model_type", target, t)
          IN  IF ConfigDeactivateOk(managers.config[i][1], id)
              THEN LET config == ConfigDeactivated(managers.config[i][1], id)
                   IN  managers' =
                           [managers EXCEPT
                               !.config[i] = <<config>>,
                               !.file = <<config>>,
                               !.activated = @ \ {id}]
              ELSE UNCHANGED managers
    /\ UNCHANGED manager_frame

InitManagers ==
    /\ now = 0
    /\ kill_switches = <<>>
    /\ activation_history = <<>>
    /\ p_in = NoCall
    /\ p_out = <<>>
    /\ raw_dir = RawDir(<<>>)
    /\ EmptyRegistry
    /\ PipelineIdle
    /\ NoChampionCall
    /\ NoDriftDir /\ NoLoader /\ NoRateLimiter
    /\ managers = ManagersClosed

NextManagers ==
    \/ \E i \in Instances : OpenManager(i)
    \/ \E i \in Instances : ManagerActivates(i)
    \/ \E i \in Instances : ManagerDeactivates(i)
    \/ Tick

SpecManagers == InitManagers /\ [][NextManagers]_vars

\* C29: a kill switch activated through one instance and not deactivated is
\* in the persisted file with status active, whatever the other instance has
\* activated or deactivated since.
C29_ActivationKeptInFile ==
    \A id \in managers.activated :
        /\ managers.file # <<>>
        /\ ConfigDeactivateOk(managers.file[1], id)

\* what the code guarantees: the file holds the config of the instance that
\* saved last
C29_FileIsLastSaversConfig ==
    managers.file # <<>> =>
        \E i \in Instances :
            \/ managers.config[i] = managers.file
            \/ managers.file = <<EmptyConfig>>

====
